---- MODULE Spec2Model ----
(***************************************************************************)
(* State-machine model of the EV3 tacho motor driver                        *)
(* (src/motors/ev3_tacho_motor.c): the edge handler tacho_motor_isr, the    *)
(* 2 ms timer callback (speed estimator, ramp state machine, regulators,    *)
(* output mapper) and the attribute setters.                                *)
(*                                                                         *)
(* Handlers run to completion: one action per handler.  A handler is a     *)
(* function from a "world" record w = [tm, port, log] to the next one:      *)
(*   tm    struct ev3_tacho_motor_data                                      *)
(*   port  what the physical motor port was last told (motor_ops calls)     *)
(*   log   what the handler did (calls made, cases processed)               *)
(* hist is a history variable: the last two edges' effect, the line levels *)
(* the last edge read, the timer beat.                                     *)
(***************************************************************************)
EXTENDS Integers, Sequences, FiniteSets, TLC

VARIABLES ev3_tm, port, log, hist

vars == <<ev3_tm, port, log, hist>>

(***************************** program constants ***************************)

TACHO_SAMPLES == 128
MAX_POWER == 100
TickMs == 2
HourMs == 3600000
NoiseCounts == 13200
TimerHz == 33000000
SpeedThreshold == 35
MinOpenLoopPower == 10
NudgeMs == 100
CountsPerPulseTacho == 3300000
CountsPerPulseMini == 2062500
MaxPulsesTacho == 900
MaxPulsesMini == 1200
DefaultKp == 1000
DefaultKi == 60
DefaultKd == 0
DefaultKk == 9000
PosGainP == 400
IntMax == 2147483647

(******************************** model bounds *****************************)

\* ticks stop once the elapsed counter of a running ramp has reached MaxCount
MaxCount == 8
\* edges handled in one behaviour of the edge handler's specification
MaxEdges == 4
\* edges handled in one behaviour of a specification of the control path
MaxCtlEdges == 1
\* largest elapsed time and window length handed to calculate_ramp_progress
MaxElapsed == 12
\* ticks of a followed ramp phase stop once the elapsed counter reached it
MaxPhaseCount == 22
\* the scenario of a slow ramp-up is followed up to this elapsed count
MaxScenarioCount == 520
\* a positioning move: encoder pulses, and the elapsed count it is followed to
MaxPulses == 66
MaxPositionCount == 12
\* edges handled in one behaviour of the specification of the STOP case
MaxRaceEdges == 2
\* a speed-regulated move is followed up to this elapsed count
MaxRegulatedCount == 24
MaxWindow == 16

(********************************* C arithmetic ****************************)

Abs(x) == IF x < 0 THEN -x ELSE x

\* Every value of the model stays inside the 32 bit int range (TLC stops with
\* an overflow error otherwise), so int and long arithmetic is exact here.

\* a - b on 32 bit unsigned timer values; the timer does not wrap within a
\* modelled behaviour, so a < b only when b is a slot not yet written after
\* a wrap, where the unsigned difference is huge
UDiff(a, b) == IF a >= b THEN a - b ELSE IntMax

\* C integer division truncates toward zero; b # 0
CDiv(a, b) ==
  IF (a >= 0) = (b > 0) THEN Abs(a) \div Abs(b) ELSE -(Abs(a) \div Abs(b))

\* a / b where b may be 0: dividing by zero is undefined, z is what it yields
DivZ(a, b, z) == IF b = 0 THEN z ELSE CDiv(a, b)

(********************************* enumerations ****************************)

RunModes == {"forever", "time", "position"}
RegulationModes == {"off", "on"}
StopModes == {"coast", "brake", "hold"}
PositionModes == {"absolute", "relative"}
Polarities == {"normal", "inverted"}
MotorTypes == {"tacho", "minitacho"}

\* !polarity
Flip(p) == IF p = "normal" THEN "inverted" ELSE "normal"

SamplesPerSpeed(type, speed) ==
  IF type = "tacho"
  THEN (IF speed > 80 THEN 64 ELSE IF speed > 60 THEN 32
        ELSE IF speed > 40 THEN 16 ELSE 4)
  ELSE IF type = "minitacho"
  THEN (IF speed > 80 THEN 16 ELSE IF speed > 60 THEN 8
        ELSE IF speed > 40 THEN 4 ELSE 2)
  ELSE 2

CountsPerPulse(type) ==
  IF type = "tacho" THEN CountsPerPulseTacho
  ELSE IF type = "minitacho" THEN CountsPerPulseMini ELSE 1

MaxPulsesPerSec(type) ==
  IF type = "tacho" THEN MaxPulsesTacho
  ELSE IF type = "minitacho" THEN MaxPulsesMini ELSE 1

(********************************** the log ********************************)

\* op: the handler; arg: the value written (set_estop), the power the speed
\* regulator computed (tick); was: estop before the write (set_estop), the
\* branch taken (set_run: 1 cancel, 2 start), 1 for a bounce (edge)

NoLog(op) ==
  [op |-> op, cmds |-> <<>>, notify |-> 0, stop |-> FALSE, idle |-> FALSE,
   count_inc |-> 0, reg_speed |-> FALSE, reg_pos |-> FALSE,
   speed_updated |-> FALSE, div0 |-> FALSE, cases |-> <<>>, arg |-> 0,
   was |-> 0, ret |-> 0, reprocess |-> FALSE, near |-> FALSE,
   mapped |-> <<>>]

Begin(w, op) == [w EXCEPT !.log = NoLog(op)]

\* a call of motor_ops
set_direction(w, polarity) ==
  [w EXCEPT !.port.direction = polarity,
            !.log.cmds = Append(@, <<"set_direction", polarity>>)]

set_command(w, command) ==
  [w EXCEPT !.port.command = command,
            !.log.cmds = Append(@, <<"set_command", command>>)]

set_duty_cycle(w, duty) ==
  [w EXCEPT !.port.duty_cycle = duty,
            !.log.cmds = Append(@, <<"set_duty_cycle", duty>>)]

(******************************* output mapper *****************************)

\* the log keeps, for every run of the output mapper, the power and the modes
\* it found, the power it left and the motor command it issued ("none" if it
\* issued none)
Mapped(w, w1) ==
  [w1 EXCEPT !.log.mapped =
     Append(@, [power |-> w.tm.power, stop_mode |-> w.tm.stop_mode,
                regulation_mode |-> w.tm.regulation_mode,
                applied |-> w1.tm.power,
                command |-> IF Len(w1.log.cmds) > Len(w.log.cmds)
                            THEN w1.log.cmds[Len(w1.log.cmds)][2]
                            ELSE "none"])]

\* faulty variant: the floor of the open-loop power is applied in every
\* regulation mode
update_output_bug_floor_always(w) ==
  LET tm == w.tm
      w1 == IF tm.power > 0
            THEN LET a == set_command(set_direction(w, tm.polarity_mode), "run")
                 IN IF tm.power < MinOpenLoopPower
                    THEN [a EXCEPT !.tm.power = MinOpenLoopPower] ELSE a
            ELSE IF tm.power < 0
            THEN LET a == set_command(set_direction(w, Flip(tm.polarity_mode)), "run")
                 IN IF tm.power > -MinOpenLoopPower
                    THEN [a EXCEPT !.tm.power = -MinOpenLoopPower] ELSE a
            ELSE IF tm.stop_mode = "coast" THEN set_command(w, "coast")
            ELSE IF tm.stop_mode = "brake" THEN set_command(w, "brake")
            ELSE IF tm.stop_mode = "hold" THEN set_command(w, "brake")
            ELSE w
  IN set_duty_cycle(Mapped(w, w1), Abs(w1.tm.power))

\* faulty variant: no motor command at power 0 in hold mode
update_output_bug_hold_silent(w) ==
  LET tm == w.tm
      w1 == IF tm.power > 0
            THEN LET a == set_command(set_direction(w, tm.polarity_mode), "run")
                 IN IF tm.regulation_mode = "off" /\ tm.power < MinOpenLoopPower
                    THEN [a EXCEPT !.tm.power = MinOpenLoopPower] ELSE a
            ELSE IF tm.power < 0
            THEN LET a == set_command(set_direction(w, Flip(tm.polarity_mode)), "run")
                 IN IF tm.regulation_mode = "off" /\ tm.power > -MinOpenLoopPower
                    THEN [a EXCEPT !.tm.power = -MinOpenLoopPower] ELSE a
            ELSE IF tm.stop_mode = "coast" THEN set_command(w, "coast")
            ELSE IF tm.stop_mode = "brake" THEN set_command(w, "brake")
            ELSE w
  IN set_duty_cycle(Mapped(w, w1), Abs(w1.tm.power))

ev3_tacho_motor_update_output(w) ==
  LET tm == w.tm
      w1 == IF tm.power > 0
            THEN LET a == set_command(set_direction(w, tm.polarity_mode), "run")
                 IN IF tm.regulation_mode = "off" /\ tm.power < MinOpenLoopPower
                    THEN [a EXCEPT !.tm.power = MinOpenLoopPower] ELSE a
            ELSE IF tm.power < 0
            THEN LET a == set_command(set_direction(w, Flip(tm.polarity_mode)), "run")
                 IN IF tm.regulation_mode = "off" /\ tm.power > -MinOpenLoopPower
                    THEN [a EXCEPT !.tm.power = -MinOpenLoopPower] ELSE a
            ELSE IF tm.stop_mode = "coast" THEN set_command(w, "coast")
            ELSE IF tm.stop_mode = "brake" THEN set_command(w, "brake")
            ELSE IF tm.stop_mode = "hold" THEN set_command(w, "brake")
            ELSE w
  IN set_duty_cycle(Mapped(w, w1), Abs(w1.tm.power))

\* faulty variant: the requested power is stored unclamped
set_power_bug_no_clamp(w, power) ==
  IF w.tm.power = power THEN w
  ELSE ev3_tacho_motor_update_output([w EXCEPT !.tm.power = power])

ev3_tacho_motor_set_power(w, power) ==
  IF w.tm.power = power THEN w
  ELSE LET p == IF power > MAX_POWER THEN MAX_POWER
                ELSE IF power < -MAX_POWER THEN -MAX_POWER ELSE power
       IN ev3_tacho_motor_update_output([w EXCEPT !.tm.power = p])

(*********************************** reset *********************************)

ZeroRamp ==
  [up |-> [start |-> 0, end |-> 0, full |-> 0],
   down |-> [start |-> 0, end |-> 0, full |-> 0],
   percent |-> 0, direction |-> 0, position_sp |-> 0, count |-> 0]

\* faulty variant: the sample ring is not cleared
reset_bug_keeps_ring(w) ==
  LET type == IF w.port.motor_type_id = "medium" THEN "minitacho" ELSE "tacho"
  IN [w EXCEPT !.tm =
    [tacho_samples |-> IF "tacho_samples" \in DOMAIN w.tm THEN w.tm.tacho_samples
                       ELSE [i \in 0..(TACHO_SAMPLES - 1) |-> 0],
     tacho_samples_head |-> 0,
     got_new_sample |-> FALSE,
     samples_per_speed |-> SamplesPerSpeed("tacho", 0),
     dir_chg_samples |-> 0,
     counts_per_pulse |-> CountsPerPulse("tacho"),
     pulses_per_second |-> 0,
     ramp |-> [ZeroRamp EXCEPT !.up.full = w.tm.ramp.up.full,
                               !.down.full = w.tm.ramp.down.full],
     pid |-> [P |-> 0, I |-> 0, D |-> 0,
              speed_regulation_P |-> DefaultKp,
              speed_regulation_I |-> DefaultKi,
              speed_regulation_D |-> DefaultKd,
              speed_regulation_K |-> DefaultKk,
              prev_pulses_per_second |-> 0,
              prev_position_error |-> 0],
     speed_reg_sp |-> 0,
     run_direction |-> "UNKNOWN",
     run |-> 0,
     estop |-> 0,
     motor_type |-> type,
     tacho |-> 0,
     irq_tacho |-> 0,
     speed |-> 0,
     power |-> 0,
     state |-> "IDLE",
     duty_cycle_sp |-> 0,
     pulses_per_second_sp |-> 0,
     time_sp |-> 0,
     position_sp |-> 0,
     ramp_up_sp |-> 0,
     ramp_down_sp |-> 0,
     run_mode |-> "forever",
     regulation_mode |-> "off",
     stop_mode |-> "coast",
     position_mode |-> "absolute",
     polarity_mode |-> "normal",
     encoder_mode |-> "normal"]]

\* the fields ev3_tacho_motor_reset assigns; ramp.up.full and ramp.down.full
\* are not among them and keep their value
ev3_tacho_motor_reset(w) ==
  LET type == IF w.port.motor_type_id = "medium" THEN "minitacho" ELSE "tacho"
  IN [w EXCEPT !.tm =
    [tacho_samples |-> [i \in 0..(TACHO_SAMPLES - 1) |-> 0],
     tacho_samples_head |-> 0,
     got_new_sample |-> FALSE,
     samples_per_speed |-> SamplesPerSpeed("tacho", 0),
     dir_chg_samples |-> 0,
     counts_per_pulse |-> CountsPerPulse("tacho"),
     pulses_per_second |-> 0,
     ramp |-> [ZeroRamp EXCEPT !.up.full = w.tm.ramp.up.full,
                               !.down.full = w.tm.ramp.down.full],
     pid |-> [P |-> 0, I |-> 0, D |-> 0,
              speed_regulation_P |-> DefaultKp,
              speed_regulation_I |-> DefaultKi,
              speed_regulation_D |-> DefaultKd,
              speed_regulation_K |-> DefaultKk,
              prev_pulses_per_second |-> 0,
              prev_position_error |-> 0],
     speed_reg_sp |-> 0,
     run_direction |-> "UNKNOWN",
     run |-> 0,
     estop |-> 0,
     motor_type |-> type,
     tacho |-> 0,
     irq_tacho |-> 0,
     speed |-> 0,
     power |-> 0,
     state |-> "IDLE",
     duty_cycle_sp |-> 0,
     pulses_per_second_sp |-> 0,
     time_sp |-> 0,
     position_sp |-> 0,
     ramp_up_sp |-> 0,
     ramp_down_sp |-> 0,
     run_mode |-> "forever",
     regulation_mode |-> "off",
     stop_mode |-> "coast",
     position_mode |-> "absolute",
     polarity_mode |-> "normal",
     encoder_mode |-> "normal"]]

\* kzalloc in ev3_tacho_motor_probe, then ev3_tacho_motor_reset
ev3_tacho_motor_probe(type_id) ==
  ev3_tacho_motor_reset(
    [tm |-> [ramp |-> ZeroRamp],
     port |-> [motor_type_id |-> type_id, command |-> "none",
               direction |-> "normal", duty_cycle |-> 0],
     log |-> NoLog("probe")])

(******************************* edge handler ******************************)

Or1(x) == IF x % 2 = 0 THEN x + 1 ELSE x

\* faulty variant: the encoder mode is not looked at
resolve_direction_bug_no_encoder(polarity_mode, encoder_mode, int_state, dir_state) ==
  IF polarity_mode = "normal"
  THEN (IF int_state = dir_state THEN "FORWARD" ELSE "REVERSE")
  ELSE (IF int_state = dir_state THEN "REVERSE" ELSE "FORWARD")

\* the fixed 2x2 table of the low-speed path
resolve_direction(polarity_mode, encoder_mode, int_state, dir_state) ==
  IF polarity_mode = "normal"
  THEN IF encoder_mode = "normal"
       THEN (IF int_state = dir_state THEN "FORWARD" ELSE "REVERSE")
       ELSE (IF int_state = dir_state THEN "REVERSE" ELSE "FORWARD")
  ELSE IF encoder_mode = "normal"
       THEN (IF int_state = dir_state THEN "REVERSE" ELSE "FORWARD")
       ELSE (IF int_state = dir_state THEN "FORWARD" ELSE "REVERSE")

Streak(n) == IF n < TACHO_SAMPLES - 1 THEN n + 1 ELSE n

\* faulty variant: a bounce is appended to the ring like any other edge
tacho_motor_isr_bug_bounce_appended(w, int_gpio, dir_gpio, timer) ==
  LET tm == w.tm
      int_state == int_gpio
      dir_state == ~dir_gpio
      prev_timer == tm.tacho_samples[tm.tacho_samples_head]
      fast == (SpeedThreshold < tm.speed) \/ (-SpeedThreshold > tm.speed)
      next_direction ==
        IF fast THEN tm.run_direction
        ELSE resolve_direction(tm.polarity_mode, tm.encoder_mode, int_state, dir_state)
      bounce == ~fast /\ NoiseCounts > UDiff(timer, prev_timer)
      next_sample == (tm.tacho_samples_head + 1) % TACHO_SAMPLES
      undo == IF ~bounce THEN 0
              ELSE IF tm.run_direction = "FORWARD" THEN -1 ELSE 1
      dir_chg == IF fast THEN Streak(tm.dir_chg_samples)
                 ELSE IF bounce THEN tm.dir_chg_samples
                 ELSE IF tm.run_direction = next_direction
                 THEN Streak(tm.dir_chg_samples) ELSE 0
      step == IF next_direction = "FORWARD" THEN 1 ELSE -1
  IN [w EXCEPT !.tm.dir_chg_samples = dir_chg,
               !.tm.run_direction = next_direction,
               !.tm.tacho_samples[next_sample] = timer,
               !.tm.tacho_samples_head = next_sample,
               !.tm.irq_tacho = (tm.irq_tacho + undo + step),
               !.tm.got_new_sample = TRUE,
               !.log.was = IF bounce THEN 1 ELSE 0]

\* int_gpio, dir_gpio: the two pin levels; timer: legoev3_hires_timer_read()
tacho_motor_isr(w, int_gpio, dir_gpio, timer) ==
  LET tm == w.tm
      int_state == int_gpio
      dir_state == ~dir_gpio
      prev_timer == tm.tacho_samples[tm.tacho_samples_head]
      fast == (SpeedThreshold < tm.speed) \/ (-SpeedThreshold > tm.speed)
      next_direction ==
        IF fast THEN tm.run_direction
        ELSE resolve_direction(tm.polarity_mode, tm.encoder_mode, int_state, dir_state)
      bounce == ~fast /\ NoiseCounts > UDiff(timer, prev_timer)
      next_sample == IF bounce THEN tm.tacho_samples_head
                     ELSE (tm.tacho_samples_head + 1) % TACHO_SAMPLES
      undo == IF ~bounce THEN 0
              ELSE IF tm.run_direction = "FORWARD" THEN -1 ELSE 1
      dir_chg == IF fast THEN Streak(tm.dir_chg_samples)
                 ELSE IF bounce THEN tm.dir_chg_samples
                 ELSE IF tm.run_direction = next_direction
                 THEN Streak(tm.dir_chg_samples) ELSE 0
      step == IF next_direction = "FORWARD" THEN 1 ELSE -1
  IN [w EXCEPT !.tm.dir_chg_samples = dir_chg,
               !.tm.run_direction = next_direction,
               !.tm.tacho_samples[next_sample] = timer,
               !.tm.tacho_samples_head = next_sample,
               !.tm.irq_tacho = (tm.irq_tacho + undo + step),
               !.tm.got_new_sample = TRUE,
               !.log.was = IF bounce THEN 1 ELSE 0]

(****************************** speed estimator ****************************)

\* faulty variant: the speed is not negated in REVERSE
calculate_speed_bug_unsigned(w, timer) ==
  LET tm == w.tm
      DiffIdx == tm.tacho_samples_head
      Diff1 == Or1(UDiff(tm.tacho_samples[DiffIdx],
                   tm.tacho_samples[(DiffIdx + TACHO_SAMPLES - 1) % TACHO_SAMPLES]))
      sps == IF tm.dir_chg_samples >= 1
             THEN SamplesPerSpeed(tm.motor_type, tm.counts_per_pulse \div Diff1)
             ELSE tm.samples_per_speed
      Diff2 == Or1(UDiff(tm.tacho_samples[DiffIdx],
                   tm.tacho_samples[(DiffIdx + TACHO_SAMPLES - sps) % TACHO_SAMPLES]))
      pps == (TimerHz * sps) \div Diff2
  IN IF tm.got_new_sample /\ tm.dir_chg_samples >= sps
     THEN [w EXCEPT !.tm.samples_per_speed = sps,
                    !.tm.pulses_per_second = pps,
                    !.tm.got_new_sample = FALSE,
                    !.log.speed_updated = TRUE]
     ELSE IF tm.counts_per_pulse < UDiff(timer, tm.tacho_samples[DiffIdx])
     THEN [w EXCEPT !.tm.samples_per_speed = sps,
                    !.tm.dir_chg_samples = 0,
                    !.tm.pulses_per_second = 0,
                    !.log.speed_updated = TRUE]
     ELSE [w EXCEPT !.tm.samples_per_speed = sps]

\* faulty variant: a stall zeroes the speed and keeps the streak
calculate_speed_bug_stall_keeps_streak(w, timer) ==
  LET tm == w.tm
      DiffIdx == tm.tacho_samples_head
      Diff1 == Or1(UDiff(tm.tacho_samples[DiffIdx],
                   tm.tacho_samples[(DiffIdx + TACHO_SAMPLES - 1) % TACHO_SAMPLES]))
      sps == IF tm.dir_chg_samples >= 1
             THEN SamplesPerSpeed(tm.motor_type, tm.counts_per_pulse \div Diff1)
             ELSE tm.samples_per_speed
      Diff2 == Or1(UDiff(tm.tacho_samples[DiffIdx],
                   tm.tacho_samples[(DiffIdx + TACHO_SAMPLES - sps) % TACHO_SAMPLES]))
      pps == (TimerHz * sps) \div Diff2
  IN IF tm.got_new_sample /\ tm.dir_chg_samples >= sps
     THEN [w EXCEPT !.tm.samples_per_speed = sps,
                    !.tm.pulses_per_second =
                       IF tm.run_direction = "REVERSE" THEN -pps ELSE pps,
                    !.tm.got_new_sample = FALSE,
                    !.log.speed_updated = TRUE]
     ELSE IF tm.counts_per_pulse < UDiff(timer, tm.tacho_samples[DiffIdx])
     THEN [w EXCEPT !.tm.samples_per_speed = sps,
                    !.tm.pulses_per_second = 0,
                    !.log.speed_updated = TRUE]
     ELSE [w EXCEPT !.tm.samples_per_speed = sps]

\* timer: what legoev3_hires_timer_read() returns in the stall check
calculate_speed(w, timer) ==
  LET tm == w.tm
      DiffIdx == tm.tacho_samples_head
      Diff1 == Or1(UDiff(tm.tacho_samples[DiffIdx],
                   tm.tacho_samples[(DiffIdx + TACHO_SAMPLES - 1) % TACHO_SAMPLES]))
      sps == IF tm.dir_chg_samples >= 1
             THEN SamplesPerSpeed(tm.motor_type, tm.counts_per_pulse \div Diff1)
             ELSE tm.samples_per_speed
      Diff2 == Or1(UDiff(tm.tacho_samples[DiffIdx],
                   tm.tacho_samples[(DiffIdx + TACHO_SAMPLES - sps) % TACHO_SAMPLES]))
      pps == (TimerHz * sps) \div Diff2
  IN IF tm.got_new_sample /\ tm.dir_chg_samples >= sps
     THEN [w EXCEPT !.tm.samples_per_speed = sps,
                    !.tm.pulses_per_second =
                       IF tm.run_direction = "REVERSE" THEN -pps ELSE pps,
                    !.tm.got_new_sample = FALSE,
                    !.log.speed_updated = TRUE]
     ELSE IF tm.counts_per_pulse < UDiff(timer, tm.tacho_samples[DiffIdx])
     THEN [w EXCEPT !.tm.samples_per_speed = sps,
                    !.tm.dir_chg_samples = 0,
                    !.tm.pulses_per_second = 0,
                    !.log.speed_updated = TRUE]
     ELSE [w EXCEPT !.tm.samples_per_speed = sps]

(********************************* regulators ******************************)

Clamp(x, lim) == IF x > lim THEN lim ELSE IF x < -lim THEN -lim ELSE x

\* faulty variant: the integral keeps the error of a saturated tick
regulate_speed_bug_windup(w, z) ==
  LET tm == w.tm
      sp == Clamp(tm.speed_reg_sp, MaxPulsesPerSec(tm.motor_type))
      speed_error == (sp - tm.pulses_per_second)
      P == speed_error
      I == (tm.pid.I + speed_error)
      D == (tm.pulses_per_second - tm.pid.prev_pulses_per_second)
      power == DivZ((P * tm.pid.speed_regulation_P
                        + I * tm.pid.speed_regulation_I
                        + D * tm.pid.speed_regulation_D),
                    tm.pid.speed_regulation_K, z)
      I2 == I
      w1 == [w EXCEPT !.tm.speed_reg_sp = sp,
                      !.tm.pid.P = P, !.tm.pid.I = I2, !.tm.pid.D = D,
                      !.tm.pid.prev_pulses_per_second = tm.pulses_per_second,
                      !.log.reg_speed = TRUE,
                      !.log.div0 = @ \/ tm.pid.speed_regulation_K = 0,
                      !.log.arg = power]
  IN IF sp = 0 THEN ev3_tacho_motor_set_power(w1, 0)
     ELSE ev3_tacho_motor_set_power(w1, power)

\* faulty variant: a setpoint of zero is regulated like any other
regulate_speed_bug_no_bypass(w, z) ==
  LET tm == w.tm
      sp == Clamp(tm.speed_reg_sp, MaxPulsesPerSec(tm.motor_type))
      speed_error == (sp - tm.pulses_per_second)
      P == speed_error
      I == (tm.pid.I + speed_error)
      D == (tm.pulses_per_second - tm.pid.prev_pulses_per_second)
      power == DivZ((P * tm.pid.speed_regulation_P
                        + I * tm.pid.speed_regulation_I
                        + D * tm.pid.speed_regulation_D),
                    tm.pid.speed_regulation_K, z)
      I2 == IF 100 < Abs(power) THEN (I - speed_error) ELSE I
      w1 == [w EXCEPT !.tm.speed_reg_sp = sp,
                      !.tm.pid.P = P, !.tm.pid.I = I2, !.tm.pid.D = D,
                      !.tm.pid.prev_pulses_per_second = tm.pulses_per_second,
                      !.log.reg_speed = TRUE,
                      !.log.div0 = @ \/ tm.pid.speed_regulation_K = 0,
                      !.log.arg = power]
  IN ev3_tacho_motor_set_power(w1, power)

\* z: what a division by zero yields (speed_regulation_K = 0)
regulate_speed(w, z) ==
  LET tm == w.tm
      sp == Clamp(tm.speed_reg_sp, MaxPulsesPerSec(tm.motor_type))
      speed_error == (sp - tm.pulses_per_second)
      P == speed_error
      I == (tm.pid.I + speed_error)
      D == (tm.pulses_per_second - tm.pid.prev_pulses_per_second)
      power == DivZ((P * tm.pid.speed_regulation_P
                        + I * tm.pid.speed_regulation_I
                        + D * tm.pid.speed_regulation_D),
                    tm.pid.speed_regulation_K, z)
      I2 == IF 100 < Abs(power) THEN (I - speed_error) ELSE I
      w1 == [w EXCEPT !.tm.speed_reg_sp = sp,
                      !.tm.pid.P = P, !.tm.pid.I = I2, !.tm.pid.D = D,
                      !.tm.pid.prev_pulses_per_second = tm.pulses_per_second,
                      !.log.reg_speed = TRUE,
                      !.log.div0 = @ \/ tm.pid.speed_regulation_K = 0,
                      !.log.arg = power]
  IN IF sp = 0 THEN ev3_tacho_motor_set_power(w1, 0)
     ELSE ev3_tacho_motor_set_power(w1, power)

\* faulty variant: the percentage itself is the power
update_motor_speed_or_power_bug_unscaled(w, percent) ==
  ev3_tacho_motor_set_power(w, percent)

update_motor_speed_or_power(w, percent) ==
  LET tm == w.tm IN
  IF tm.regulation_mode = "off"
  THEN IF tm.run_mode = "position"
       THEN ev3_tacho_motor_set_power(w,
              (tm.ramp.direction * Abs(CDiv((tm.duty_cycle_sp * percent), 100))))
       ELSE ev3_tacho_motor_set_power(w, CDiv((tm.duty_cycle_sp * percent), 100))
  ELSE IF tm.regulation_mode = "on"
  THEN IF tm.run_mode = "position"
       THEN [w EXCEPT !.tm.speed_reg_sp =
              (tm.ramp.direction * Abs(CDiv((tm.pulses_per_second_sp * percent), 100)))]
       ELSE [w EXCEPT !.tm.speed_reg_sp = CDiv((tm.pulses_per_second_sp * percent), 100)]
  ELSE w

regulate_position(w) ==
  LET tm == w.tm
      position_error == (0 - tm.irq_tacho)
      known == tm.motor_type \in {"minitacho", "tacho"}
      P == IF known THEN (position_error * PosGainP) ELSE tm.pid.P
      I == IF known THEN (CDiv((tm.pid.I * 99), 100) + position_error) ELSE tm.pid.I
      D == IF known
           THEN (CDiv(((position_error - tm.pid.prev_position_error) * 4), 2) * 2)
           ELSE tm.pid.D
      power == CDiv((P + I + D), 100)
  IN ev3_tacho_motor_set_power(
       [w EXCEPT !.tm.pid.P = P, !.tm.pid.I = I, !.tm.pid.D = D,
                 !.tm.pid.prev_position_error = position_error,
                 !.log.reg_pos = TRUE],
       power)

(********************************* ramp helpers ****************************)

adjust_ramp_for_position(w) ==
  LET tm == w.tm
      ramp_down_time ==
        IF tm.regulation_mode = "off"
        THEN Abs(CDiv((tm.ramp_down_sp * tm.power), 100))
        ELSE IF tm.regulation_mode = "on"
        THEN Abs(CDiv((tm.ramp_down_sp * tm.pulses_per_second),
                      MaxPulsesPerSec(tm.motor_type)))
        ELSE 0
      ramp_down_distance ==
        Abs(CDiv((tm.pulses_per_second * ramp_down_time * 7), 2000 * 10))
      position == (tm.tacho + tm.irq_tacho)
      near == IF tm.ramp.direction > 0
              THEN (tm.ramp.position_sp - ramp_down_distance) <= position
              ELSE (tm.ramp.position_sp + ramp_down_distance) >= position
  IN IF near
     THEN [w EXCEPT !.tm.ramp.up.end = tm.ramp.count,
                    !.tm.ramp.down.end = tm.ramp.count + ramp_down_time,
                    !.tm.ramp.down.start =
                       tm.ramp.count + ramp_down_time - tm.ramp_down_sp,
                    !.log.near = TRUE]
     ELSE w

\* faulty variant: without the margin of two
calculate_ramp_progress_bug_no_margin(numerator, denominator) ==
  IF denominator <= numerator THEN 100
  ELSE IF denominator = 0 THEN 100
  ELSE CDiv(numerator * 100, denominator)

calculate_ramp_progress(numerator, denominator) ==
  IF denominator <= numerator + 2 THEN 100
  ELSE IF denominator = 0 THEN 100
  ELSE CDiv((numerator * 100), denominator)

(****************************** timer callback *****************************)

Ramping == {"RAMP_UP", "RAMP_CONST", "POSITION_RAMP_DOWN", "RAMP_DOWN"}

Reprocess(w, state) == [w EXCEPT !.tm.state = state, !.log.reprocess = TRUE]

\* faulty variant: overlapping ramp windows are left as computed
setup_ramp_time_bug_no_overlap(w, z) ==
  LET tm == w.tm
      down_end == IF tm.run_mode = "forever" THEN HourMs ELSE tm.time_sp
      up_full == CDiv(Abs(tm.duty_cycle_sp) * tm.ramp_up_sp, 100)
      down_full == CDiv(Abs(tm.duty_cycle_sp) * tm.ramp_down_sp, 100)
  IN Reprocess(
       [w EXCEPT !.tm.ramp.up.start = 0,
                 !.tm.ramp.up.full = up_full,
                 !.tm.ramp.down.full = down_full,
                 !.tm.ramp.direction = IF tm.duty_cycle_sp >= 0 THEN 1 ELSE -1,
                 !.tm.ramp.up.end = up_full,
                 !.tm.ramp.down.start = down_end - down_full,
                 !.tm.ramp.down.end = down_end],
       "SETUP_RAMP_REGULATION")

\* faulty variant: the windows are as long as the ramp setpoints, whatever the
\* duty cycle or speed setpoint
setup_ramp_time_bug_unscaled(w, z) ==
  LET tm == w.tm
      down_end == IF tm.run_mode = "forever" THEN HourMs ELSE tm.time_sp
  IN Reprocess(
       [w EXCEPT !.tm.ramp.up.start = 0,
                 !.tm.ramp.up.full = tm.ramp_up_sp,
                 !.tm.ramp.down.full = tm.ramp_down_sp,
                 !.tm.ramp.direction = IF tm.duty_cycle_sp >= 0 THEN 1 ELSE -1,
                 !.tm.ramp.up.end = tm.ramp_up_sp,
                 !.tm.ramp.down.start = down_end - tm.ramp_down_sp,
                 !.tm.ramp.down.end = down_end],
       "SETUP_RAMP_REGULATION")

\* case TM_STATE_RUN_FOREVER: case TM_STATE_SETUP_RAMP_TIME:
setup_ramp_time(w, z) ==
  LET tm == w.tm
      down_end == IF tm.run_mode = "forever" THEN HourMs ELSE tm.time_sp
      sp == IF tm.regulation_mode = "off" THEN tm.duty_cycle_sp
            ELSE tm.pulses_per_second_sp
      div == IF tm.regulation_mode = "off" THEN 100
             ELSE MaxPulsesPerSec(tm.motor_type)
      known == tm.regulation_mode \in {"off", "on"}
      up_full == IF known THEN CDiv((Abs(sp) * tm.ramp_up_sp), div)
                 ELSE tm.ramp.up.full
      down_full == IF known THEN CDiv((Abs(sp) * tm.ramp_down_sp), div)
                   ELSE tm.ramp.down.full
      direction == IF known THEN (IF sp >= 0 THEN 1 ELSE -1) ELSE tm.ramp.direction
      up_end == (0 + up_full)
      down_start == (down_end - down_full)
      overlap == up_end > down_start
      meet == DivZ((tm.time_sp * tm.ramp_up_sp),
                   (tm.ramp_up_sp + tm.ramp_down_sp), z)
  IN Reprocess(
       [w EXCEPT !.tm.ramp.up.start = 0,
                 !.tm.ramp.up.full = up_full,
                 !.tm.ramp.down.full = down_full,
                 !.tm.ramp.direction = direction,
                 !.tm.ramp.up.end = IF overlap THEN meet ELSE up_end,
                 !.tm.ramp.down.start = IF overlap THEN meet ELSE down_start,
                 !.tm.ramp.down.end = down_end,
                 !.log.div0 = @ \/ (overlap /\ (tm.ramp_up_sp + tm.ramp_down_sp) = 0)],
       "SETUP_RAMP_REGULATION")

\* case TM_STATE_SETUP_RAMP_POSITION:
setup_ramp_position(w) ==
  LET tm == w.tm
      target == IF tm.position_mode = "absolute" THEN tm.position_sp
                ELSE (tm.ramp.position_sp + tm.position_sp)
      sp == IF tm.regulation_mode = "off" THEN tm.duty_cycle_sp
            ELSE tm.pulses_per_second_sp
      div == IF tm.regulation_mode = "off" THEN 100
             ELSE MaxPulsesPerSec(tm.motor_type)
      known == tm.regulation_mode \in {"off", "on"}
      up_full == IF known THEN CDiv((Abs(sp) * tm.ramp_up_sp), div)
                 ELSE tm.ramp.up.full
      down_full == IF known THEN CDiv((Abs(sp) * tm.ramp_down_sp), div)
                   ELSE tm.ramp.down.full
  IN Reprocess(
       [w EXCEPT !.tm.ramp.position_sp = target,
                 !.tm.ramp.direction =
                    IF target >= (tm.tacho + tm.irq_tacho) THEN 1 ELSE -1,
                 !.tm.ramp.up.start = 0,
                 !.tm.ramp.up.full = up_full,
                 !.tm.ramp.down.full = down_full,
                 !.tm.ramp.up.end = up_full,
                 !.tm.ramp.down.end = HourMs,
                 !.tm.ramp.down.start = HourMs],
       "SETUP_RAMP_REGULATION")

\* case TM_STATE_SETUP_RAMP_REGULATION:
setup_ramp_regulation(w) == Reprocess([w EXCEPT !.tm.ramp.count = 0], "RAMP_UP")

Percent(w, percent) ==
  update_motor_speed_or_power([w EXCEPT !.tm.ramp.percent = percent], percent)

\* faulty variant: RAMP_UP is left two ticks early
ramp_up_bug_leaves_early(w) ==
  LET w1 == IF w.tm.run_mode = "position" THEN adjust_ramp_for_position(w) ELSE w
      w2 == IF w1.tm.ramp.count + 2 * TickMs >= w1.tm.ramp.up.end
            THEN Reprocess(w1, "RAMP_CONST") ELSE w1
      percent == calculate_ramp_progress(w2.tm.ramp.count, w2.tm.ramp.up.full)
  IN Percent([w2 EXCEPT !.log.ret = percent], percent)

\* case TM_STATE_RAMP_UP:
ramp_up(w) ==
  LET w1 == IF w.tm.run_mode = "position" THEN adjust_ramp_for_position(w) ELSE w
      w2 == IF w1.tm.ramp.count >= w1.tm.ramp.up.end
            THEN Reprocess(w1, "RAMP_CONST") ELSE w1
      percent == calculate_ramp_progress(w2.tm.ramp.count, w2.tm.ramp.up.full)
  IN Percent([w2 EXCEPT !.log.ret = percent], percent)

\* faulty variant: an endless move ends when time_sp has elapsed
ramp_const_bug_forever_timed(w) ==
  LET tm == w.tm
      w1 == IF tm.run_mode = "forever"
            THEN (IF tm.ramp.count >= tm.time_sp
                  THEN Reprocess(w, "RAMP_DOWN") ELSE w)
            ELSE IF tm.run_mode = "time"
            THEN (IF tm.ramp.count >= tm.ramp.down.start
                  THEN Reprocess(w, "RAMP_DOWN") ELSE w)
            ELSE IF tm.run_mode = "position"
            THEN LET a == adjust_ramp_for_position(w)
                 IN IF a.tm.ramp.count >= a.tm.ramp.down.start
                    THEN Reprocess(a, "POSITION_RAMP_DOWN") ELSE a
            ELSE w
  IN update_motor_speed_or_power(w1, w1.tm.ramp.percent)

\* case TM_STATE_RAMP_CONST:
ramp_const(w) ==
  LET tm == w.tm
      w1 == IF tm.run_mode = "forever"
            THEN [w EXCEPT !.tm.ramp.down.start = tm.ramp.count,
                           !.tm.ramp.down.end =
                              (tm.ramp.count
                                  + CDiv((Abs(tm.duty_cycle_sp) * tm.ramp_down_sp), 100))]
            ELSE IF tm.run_mode = "time"
            THEN (IF tm.ramp.count >= tm.ramp.down.start
                  THEN Reprocess(w, "RAMP_DOWN") ELSE w)
            ELSE IF tm.run_mode = "position"
            THEN LET a == adjust_ramp_for_position(w)
                 IN IF a.tm.ramp.count >= a.tm.ramp.down.start
                    THEN Reprocess(a, "POSITION_RAMP_DOWN") ELSE a
            ELSE w
  IN update_motor_speed_or_power(w1, w1.tm.ramp.percent)

\* faulty variant: the percentage rises with the time spent in the down-window
ramp_down_bug_rising(w) ==
  LET w1 == IF w.tm.ramp.count >= w.tm.ramp.down.end
            THEN Reprocess(w, "STOP") ELSE w
  IN Percent(w1, calculate_ramp_progress(w1.tm.ramp.count - w1.tm.ramp.down.start,
                                          w1.tm.ramp.down.full))

\* case TM_STATE_RAMP_DOWN:
ramp_down(w) ==
  LET w1 == IF w.tm.ramp.count >= w.tm.ramp.down.end
            THEN Reprocess(w, "STOP") ELSE w
  IN Percent(w1, calculate_ramp_progress((w1.tm.ramp.down.end - w1.tm.ramp.count),
                                          w1.tm.ramp.down.full))

\* faulty variant: an elapsed down-window is not pushed out
position_ramp_down_bug_no_push(w) ==
  LET tm == w.tm
      reached == IF tm.ramp.direction > 0
                 THEN tm.ramp.position_sp <= (tm.tacho + tm.irq_tacho)
                 ELSE tm.ramp.position_sp >= (tm.tacho + tm.irq_tacho)
      down_end == IF reached THEN tm.ramp.count ELSE tm.ramp.down.end
  IN ramp_down([w EXCEPT !.tm.ramp.down.end = down_end,
                         !.tm.ramp.down.start = (down_end - tm.ramp_down_sp)])

\* case TM_STATE_POSITION_RAMP_DOWN: falls through to TM_STATE_RAMP_DOWN
position_ramp_down(w) ==
  LET tm == w.tm
      position == (tm.tacho + tm.irq_tacho)
      reached == IF tm.ramp.direction > 0 THEN tm.ramp.position_sp <= position
                 ELSE tm.ramp.position_sp >= position
      down_end == IF reached THEN tm.ramp.count
                  ELSE IF tm.ramp.down.end <= tm.ramp.count
                  THEN tm.ramp.count + NudgeMs
                  ELSE tm.ramp.down.end
  IN ramp_down([w EXCEPT !.tm.ramp.down.end = down_end,
                         !.tm.ramp.down.start = (down_end - tm.ramp_down_sp)])

\* faulty variant: the live delta is zeroed in position mode as well
stop_bug_zeroes_delta(w) ==
  LET tm == w.tm
      w1 == [w EXCEPT !.tm.tacho = (tm.tacho + tm.irq_tacho),
                      !.tm.irq_tacho = 0]
      w2 == ev3_tacho_motor_set_power([w1 EXCEPT !.tm.speed_reg_sp = 0], 0)
  IN Reprocess([w2 EXCEPT !.tm.pid.P = 0, !.tm.pid.I = 0, !.tm.pid.D = 0,
                          !.log.stop = TRUE],
               "IDLE")

\* faulty variant: the integral term outlives the move
stop_bug_keeps_integral(w) ==
  LET tm == w.tm
      w1 == IF tm.run_mode = "position"
            THEN [w EXCEPT !.tm.irq_tacho =
                              ((tm.tacho + tm.irq_tacho) - tm.ramp.position_sp),
                           !.tm.tacho = tm.ramp.position_sp]
            ELSE [w EXCEPT !.tm.tacho = (tm.tacho + tm.irq_tacho),
                           !.tm.irq_tacho = 0]
      w2 == ev3_tacho_motor_set_power([w1 EXCEPT !.tm.speed_reg_sp = 0], 0)
  IN Reprocess([w2 EXCEPT !.tm.pid.P = 0, !.tm.pid.D = 0,
                          !.log.stop = TRUE],
               "IDLE")

\* case TM_STATE_STOP:
stop(w) ==
  LET tm == w.tm
      w1 == IF tm.run_mode = "position"
            THEN [w EXCEPT !.tm.irq_tacho =
                              ((tm.tacho + tm.irq_tacho) - tm.ramp.position_sp),
                           !.tm.tacho = tm.ramp.position_sp]
            ELSE [w EXCEPT !.tm.tacho = (tm.tacho + tm.irq_tacho),
                           !.tm.irq_tacho = 0]
      w2 == ev3_tacho_motor_set_power([w1 EXCEPT !.tm.speed_reg_sp = 0], 0)
  IN Reprocess([w2 EXCEPT !.tm.pid.P = 0, !.tm.pid.I = 0, !.tm.pid.D = 0,
                          !.log.stop = TRUE],
               "IDLE")

\* faulty variant: Idle schedules no notification
idle_bug_silent(w) ==
  [w EXCEPT !.tm.run = 0, !.log.idle = TRUE]

\* faulty variant: Idle leaves run set
idle_bug_keeps_run(w) ==
  [w EXCEPT !.log.notify = @ + 1, !.log.idle = TRUE]

\* case TM_STATE_IDLE:
idle(w) ==
  [w EXCEPT !.tm.run = 0, !.log.notify = @ + 1, !.log.idle = TRUE]

\* faulty variant: the elapsed counter is advanced in every pass of the loop
process_state_bug_counts_in_loop(w, z) ==
  LET s == w.tm.state
      w0 == [w EXCEPT !.log.reprocess = FALSE, !.log.cases = Append(@, s),
                      !.tm.ramp.count = IF s \in Ramping THEN @ + TickMs ELSE @]
  IN CASE s \in {"RUN_FOREVER", "SETUP_RAMP_TIME"} -> setup_ramp_time(w0, z)
       [] s = "SETUP_RAMP_POSITION" -> setup_ramp_position(w0)
       [] s = "SETUP_RAMP_REGULATION" -> setup_ramp_regulation(w0)
       [] s = "RAMP_UP" -> ramp_up(w0)
       [] s = "RAMP_CONST" -> ramp_const(w0)
       [] s = "POSITION_RAMP_DOWN" -> position_ramp_down(w0)
       [] s = "RAMP_DOWN" -> ramp_down(w0)
       [] s = "STOP" -> stop(w0)
       [] s = "IDLE" -> idle(w0)
       [] OTHER -> w0

\* one pass of the switch inside while (reprocess)
process_state(w, z) ==
  LET s == w.tm.state
      w0 == [w EXCEPT !.log.reprocess = FALSE, !.log.cases = Append(@, s)]
  IN CASE s \in {"RUN_FOREVER", "SETUP_RAMP_TIME"} -> setup_ramp_time(w0, z)
       [] s = "SETUP_RAMP_POSITION" -> setup_ramp_position(w0)
       [] s = "SETUP_RAMP_REGULATION" -> setup_ramp_regulation(w0)
       [] s = "RAMP_UP" -> ramp_up(w0)
       [] s = "RAMP_CONST" -> ramp_const(w0)
       [] s = "POSITION_RAMP_DOWN" -> position_ramp_down(w0)
       [] s = "RAMP_DOWN" -> ramp_down(w0)
       [] s = "STOP" -> stop(w0)
       [] s = "IDLE" -> idle(w0)
       [] OTHER -> w0

RECURSIVE reprocess_loop(_, _)
reprocess_loop(w, z) ==
  IF w.log.reprocess THEN reprocess_loop(process_state(w, z), z) ELSE w

\* faulty variant: the position regulator of hold mode also runs while the
\* motor runs
no_run_bug_holds_running(w) ==
  IF w.tm.stop_mode = "hold" THEN regulate_position(w)
  ELSE IF w.tm.run # 0 THEN w
  ELSE IF w.tm.stop_mode = "coast" THEN set_command(w, "coast")
  ELSE IF w.tm.stop_mode = "brake" THEN set_command(w, "brake")
  ELSE w

\* the label no_run: and what follows it
no_run(w) ==
  IF w.tm.run = 0
  THEN IF w.tm.stop_mode = "coast" THEN set_command(w, "coast")
       ELSE IF w.tm.stop_mode = "brake" THEN set_command(w, "brake")
       ELSE IF w.tm.stop_mode = "hold" THEN regulate_position(w)
       ELSE w
  ELSE w

ev3_tacho_motor_timer_callback(w, timer, z) ==
  LET w1 == calculate_speed(Begin(w, "tick"), timer)
  IN IF w1.tm.run = 0 THEN no_run(w1)
     ELSE LET w2 == IF w1.tm.state \in Ramping
                    THEN [w1 EXCEPT !.tm.ramp.count = (@ + TickMs),
                                    !.log.count_inc = @ + 1]
                    ELSE w1
              w3 == reprocess_loop([w2 EXCEPT !.log.reprocess = TRUE], z)
              w4 == IF w3.tm.run # 0 /\ w3.tm.regulation_mode = "on"
                    THEN regulate_speed(w3, z) ELSE w3
          IN no_run(w4)

(********************************** setters ********************************)

ev3_tacho_motor_set_type(w, type) ==
  [w EXCEPT !.tm.motor_type = IF type = "minitacho" THEN "minitacho" ELSE "tacho"]

ev3_tacho_motor_set_position(w, position) ==
  [w EXCEPT !.tm.irq_tacho = 0, !.tm.tacho = position,
            !.tm.ramp.position_sp = position]

ev3_tacho_motor_set_duty_cycle_sp(w, v) == [w EXCEPT !.tm.duty_cycle_sp = v]
ev3_tacho_motor_set_pulses_per_second_sp(w, v) == [w EXCEPT !.tm.pulses_per_second_sp = v]
ev3_tacho_motor_set_time_sp(w, v) == [w EXCEPT !.tm.time_sp = v]
ev3_tacho_motor_set_position_sp(w, v) == [w EXCEPT !.tm.position_sp = v]
ev3_tacho_motor_set_ramp_up_sp(w, v) == [w EXCEPT !.tm.ramp_up_sp = v]
ev3_tacho_motor_set_ramp_down_sp(w, v) == [w EXCEPT !.tm.ramp_down_sp = v]
ev3_tacho_motor_set_run_mode(w, v) == [w EXCEPT !.tm.run_mode = v]
ev3_tacho_motor_set_regulation_mode(w, v) == [w EXCEPT !.tm.regulation_mode = v]
ev3_tacho_motor_set_position_mode(w, v) == [w EXCEPT !.tm.position_mode = v]
ev3_tacho_motor_set_stop_mode(w, v) == [w EXCEPT !.tm.stop_mode = v]
ev3_tacho_motor_set_encoder_mode(w, v) == [w EXCEPT !.tm.encoder_mode = v]
ev3_tacho_motor_set_speed_regulation_P(w, v) == [w EXCEPT !.tm.pid.speed_regulation_P = v]
ev3_tacho_motor_set_speed_regulation_I(w, v) == [w EXCEPT !.tm.pid.speed_regulation_I = v]
ev3_tacho_motor_set_speed_regulation_D(w, v) == [w EXCEPT !.tm.pid.speed_regulation_D = v]
ev3_tacho_motor_set_speed_regulation_K(w, v) == [w EXCEPT !.tm.pid.speed_regulation_K = v]

ev3_tacho_motor_set_polarity_mode(w, v) ==
  ev3_tacho_motor_update_output([w EXCEPT !.tm.polarity_mode = v])

\* faulty variant: the estop is not looked at
set_run_bug_ignores_estop(w, run) ==
  [w EXCEPT !.tm.run = 1,
            !.tm.state = IF run # 0 /\ w.tm.state = "IDLE" THEN "RUN_FOREVER"
                         ELSE IF run = 0 THEN "STOP" ELSE @]

\* faulty variant: the run flag takes the value written
set_run_bug_stores_argument(w, run) ==
  LET tm == w.tm
      w1 == IF tm.estop # 0 THEN [w EXCEPT !.tm.state = "STOP"]
            ELSE IF run = 0 /\ tm.state # "IDLE"
            THEN [w EXCEPT !.tm.ramp.down.start = tm.ramp.count,
                           !.tm.ramp.down.end = tm.ramp_down_sp,
                           !.tm.state =
                              IF tm.run_mode \in {"forever", "time"} THEN "RAMP_DOWN"
                              ELSE IF tm.run_mode = "position" THEN "STOP" ELSE @,
                           !.log.was = IF tm.state \in {"STOP", "RAMP_DOWN"}
                                       THEN 3 ELSE 1]
            ELSE IF run # 0 /\ tm.state = "IDLE"
            THEN [w EXCEPT !.tm.state =
                              IF tm.run_mode = "forever" THEN "RUN_FOREVER"
                              ELSE IF tm.run_mode = "time" THEN "SETUP_RAMP_TIME"
                              ELSE IF tm.run_mode = "position" THEN "SETUP_RAMP_POSITION"
                              ELSE @,
                           !.log.was = 2]
            ELSE IF run = 0 THEN [w EXCEPT !.tm.state = "STOP"]
            ELSE w
  IN [w1 EXCEPT !.tm.run = IF run = 0 THEN 0 ELSE 1]

ev3_tacho_motor_set_run(w, run) ==
  LET tm == w.tm
      w1 == IF tm.estop # 0 THEN [w EXCEPT !.tm.state = "STOP"]
            ELSE IF run = 0 /\ tm.state # "IDLE"
            THEN [w EXCEPT !.tm.ramp.down.start = tm.ramp.count,
                           !.tm.ramp.down.end = tm.ramp_down_sp,
                           !.tm.state =
                              IF tm.run_mode \in {"forever", "time"} THEN "RAMP_DOWN"
                              ELSE IF tm.run_mode = "position" THEN "STOP" ELSE @,
                           !.log.was = IF tm.state \in {"STOP", "RAMP_DOWN"}
                                       THEN 3 ELSE 1]
            ELSE IF run # 0 /\ tm.state = "IDLE"
            THEN [w EXCEPT !.tm.state =
                              IF tm.run_mode = "forever" THEN "RUN_FOREVER"
                              ELSE IF tm.run_mode = "time" THEN "SETUP_RAMP_TIME"
                              ELSE IF tm.run_mode = "position" THEN "SETUP_RAMP_POSITION"
                              ELSE @,
                           !.log.was = 2]
            ELSE IF run = 0 THEN [w EXCEPT !.tm.state = "STOP"]
            ELSE w
  IN [w1 EXCEPT !.tm.run = 1]

\* faulty variant: arming leaves stop_mode alone
set_estop_bug_keeps_stop_mode(w, estop, token) ==
  IF w.tm.estop = 0
  THEN [w EXCEPT !.tm.state = "STOP", !.tm.estop = token]
  ELSE IF estop = w.tm.estop THEN [w EXCEPT !.tm.estop = 0]
  ELSE w

\* faulty variant: any write disarms an armed estop
set_estop_bug_clears_on_any(w, estop, token) ==
  IF w.tm.estop = 0
  THEN [w EXCEPT !.tm.stop_mode = "coast", !.tm.state = "STOP", !.tm.estop = token]
  ELSE [w EXCEPT !.tm.estop = 0]

\* token: the first non-zero value get_random_bytes yields
ev3_tacho_motor_set_estop(w, estop, token) ==
  IF w.tm.estop = 0
  THEN [w EXCEPT !.tm.stop_mode = "coast", !.tm.state = "STOP", !.tm.estop = token]
  ELSE IF estop = w.tm.estop THEN [w EXCEPT !.tm.estop = 0]
  ELSE w

ev3_tacho_motor_set_reset(w, reset) == ev3_tacho_motor_reset(w)

(********************************** actions ********************************)

World == [tm |-> ev3_tm, port |-> port, log |-> log]

Commit(w) == ev3_tm' = w.tm /\ port' = w.port /\ log' = w.log

\* gap: timer counts since the newest ring sample when the timer is read
TimerAt(gap) == ev3_tm.tacho_samples[ev3_tm.tacho_samples_head] + gap

\* RAMP_UP, RAMP_CONST and POSITION_RAMP_DOWN may last for ever: ticks stop
\* there once the elapsed counter reached MaxCount.  RAMP_DOWN ends by itself
\* and is followed for as long again.
TickBound ==
  \/ ev3_tm.run = 0
  \/ ev3_tm.state \notin Ramping
  \/ ev3_tm.ramp.count < MaxCount
  \/ ev3_tm.state = "RAMP_DOWN" /\ ev3_tm.ramp.count < 2 * MaxCount

Tick(gap, z) ==
  /\ TickBound
  /\ Commit(ev3_tacho_motor_timer_callback(World, TimerAt(gap), z))
  /\ UNCHANGED hist

\* a tick of a move that is followed up to the elapsed count bound
TickUpTo(bound, gap, z) ==
  /\ ev3_tm.run = 0 \/ ev3_tm.state \notin Ramping \/ ev3_tm.ramp.count < bound
  /\ Commit(ev3_tacho_motor_timer_callback(World, TimerAt(gap), z))
  /\ UNCHANGED hist

\* the tick of a periodic timer: hist.beat tells one period from the next
Beat == hist' = [hist EXCEPT !.beat = 1 - @]

PeriodicTick(gap, z) ==
  /\ TickBound
  /\ Commit(ev3_tacho_motor_timer_callback(World, TimerAt(gap), z))
  /\ Beat

\* hist.since: the ring samples recorded since run_direction last changed
\* value, that of the edge which changed it included
Edge(bound, int_gpio, dir_gpio, gap) ==
  /\ hist.n < bound
  /\ LET w == tacho_motor_isr(Begin(World, "edge"), int_gpio, dir_gpio, TimerAt(gap))
     IN /\ Commit(w)
        /\ hist' = [hist EXCEPT !.n = @ + 1, !.gap = gap,
                                  !.d1 = w.tm.irq_tacho - ev3_tm.irq_tacho,
                                  !.d2 = hist.d1,
                                  !.int_state = int_gpio,
                                  !.dir_state = ~dir_gpio,
                                  !.since =
                                     IF w.tm.run_direction # ev3_tm.run_direction
                                     THEN 1
                                     ELSE IF w.tm.tacho_samples_head
                                               # ev3_tm.tacho_samples_head
                                     THEN @ + 1 ELSE @]

SetRun(run) ==
  /\ Commit(ev3_tacho_motor_set_run(Begin(World, "set_run"), run))
  /\ UNCHANGED hist

SetEstop(estop, token) ==
  /\ Commit(ev3_tacho_motor_set_estop(
              [World EXCEPT !.log = [NoLog("set_estop") EXCEPT !.arg = estop,
                                                               !.was = ev3_tm.estop]],
              estop, token))
  /\ UNCHANGED hist

SetReset ==
  /\ Commit(ev3_tacho_motor_set_reset(Begin(World, "set_reset"), 1))
  /\ UNCHANGED hist

SetStopMode(v) ==
  /\ Commit(ev3_tacho_motor_set_stop_mode(Begin(World, "set_stop_mode"), v))
  /\ UNCHANGED hist

SetPolarityMode(v) ==
  /\ Commit(ev3_tacho_motor_set_polarity_mode(Begin(World, "set_polarity_mode"), v))
  /\ UNCHANGED hist

SetEncoderMode(v) ==
  /\ Commit(ev3_tacho_motor_set_encoder_mode(Begin(World, "set_encoder_mode"), v))
  /\ UNCHANGED hist

SetPulsesPerSecondSp(v) ==
  /\ Commit(ev3_tacho_motor_set_pulses_per_second_sp(
              Begin(World, "set_pulses_per_second_sp"), v))
  /\ UNCHANGED hist

SetDutyCycleSp(v) ==
  /\ Commit(ev3_tacho_motor_set_duty_cycle_sp(Begin(World, "set_duty_cycle_sp"), v))
  /\ UNCHANGED hist

SetSpeedRegulationK(v) ==
  /\ Commit(ev3_tacho_motor_set_speed_regulation_K(Begin(World, "set_speed_regulation_K"), v))
  /\ UNCHANGED hist

(**************************** configured, idle motor ***********************)

\* the setters called one after another on a freshly attached motor
Configure(type_id, p) ==
  ev3_tacho_motor_set_ramp_down_sp(
  ev3_tacho_motor_set_ramp_up_sp(
  ev3_tacho_motor_set_position_sp(
  ev3_tacho_motor_set_time_sp(
  ev3_tacho_motor_set_pulses_per_second_sp(
  ev3_tacho_motor_set_duty_cycle_sp(
  ev3_tacho_motor_set_stop_mode(
  ev3_tacho_motor_set_regulation_mode(
  ev3_tacho_motor_set_run_mode(ev3_tacho_motor_probe(type_id),
    p.run_mode), p.regulation_mode), p.stop_mode), p.duty_cycle_sp),
    p.pulses_per_second_sp), p.time_sp), p.position_sp), p.ramp_up_sp),
    p.ramp_down_sp)

InitWith(type_ids, profiles) ==
  \E t \in type_ids, p \in profiles :
    LET w == Configure(t, p)
    IN /\ ev3_tm = w.tm
       /\ port = w.port
       /\ log = NoLog("probe")
       /\ hist = [n |-> 0, gap |-> 0, d1 |-> 0, d2 |-> 0, beat |-> 0,
                  int_state |-> FALSE, dir_state |-> FALSE,
                  pc |-> "none", reg |-> 0, pos0 |-> 0, net |-> 0,
                  since |-> 0]

(*************************** specification: estop **************************)
\* moves in every run mode, started, cancelled, emergency-stopped and reset

Tokens == {-7, 5}
EstopWrites == {0, 5}
\* one timer period after the newest sample; just inside the noise window
FreshGap == TickMs * (TimerHz \div 1000)
BounceGap == NoiseCounts - 1

EstopProfiles ==
  [run_mode : RunModes, regulation_mode : RegulationModes,
   stop_mode : {"brake"},
   duty_cycle_sp : {50}, pulses_per_second_sp : {450},
   time_sp : {6}, position_sp : {2}, ramp_up_sp : {4}, ramp_down_sp : {4}]

InitEstop == InitWith({"large"}, EstopProfiles)

NextEstop ==
  \/ Tick(FreshGap, 0)
  \/ Edge(MaxCtlEdges, TRUE, FALSE, FreshGap)
  \/ \E run \in {0, 1} : SetRun(run)
  \/ \E v \in EstopWrites, token \in Tokens : SetEstop(v, token)
  \/ SetReset
  \/ SetDutyCycleSp(-5)

SpecEstop == InitEstop /\ [][NextEstop]_vars

Armed == ev3_tm.estop # 0

\* C1: set_estop called while estop is disarmed arms it: afterwards estop is a
\* non-zero token, the FSM state is Stop and stop_mode is coast.
C1_ArmForcesStopCoast ==
  (log.op = "set_estop" /\ log.was = 0)
    => (ev3_tm.estop # 0 /\ ev3_tm.state = "STOP" /\ ev3_tm.stop_mode = "coast")

\* estop was armed in the middle of a move of a motor configured to brake
C1_Witness ==
  /\ log.op = "set_estop" /\ log.was = 0
  /\ ev3_tm.estop # 0 /\ ev3_tm.state = "STOP" /\ ev3_tm.stop_mode = "coast"
  /\ ev3_tm.run = 1 /\ ev3_tm.power # 0

\* C2: while estop is armed, set_estop(v) changes the motor only when v is the
\* stored token, and then only estop (to 0); any other v changes no field.
C2_ArmedWriteFrame ==
  [][(log'.op = "set_estop" /\ Armed)
       => /\ port' = port
          /\ IF log'.arg = ev3_tm.estop
             THEN ev3_tm' = [ev3_tm EXCEPT !.estop = 0]
             ELSE ev3_tm' = ev3_tm]_vars

\* a wrong value was written while armed, in the middle of a move
C2_Witness ==
  /\ log.op = "set_estop" /\ log.was # 0 /\ log.arg # log.was
  /\ ev3_tm.estop = log.was /\ ev3_tm.power # 0

\* C3: once armed, estop returns to 0 only through set_estop called with the
\* exact stored token; no other operation clears it.
C3_OnlyTokenDisarms ==
  [][(Armed /\ ev3_tm'.estop = 0)
       => (log'.op = "set_estop" /\ log'.arg = ev3_tm.estop)]_vars

\* C4: whenever estop is armed the FSM state is Stop or Idle.
C4_ArmedMeansStopped == Armed => ev3_tm.state \in {"STOP", "IDLE"}

\* set_run was written while estop was armed and the FSM had reached Idle
C4_Witness ==
  /\ Armed /\ log.op = "set_run" /\ ev3_tm.state = "STOP" /\ ev3_tm.run = 1
  /\ ev3_tm.power = 0

(**************************** specification: ramp ***************************)
\* timed and endless moves, open and closed loop, started and cancelled

RampProfiles ==
  [run_mode : {"forever", "time"}, regulation_mode : RegulationModes,
   stop_mode : {"coast"},
   duty_cycle_sp : {100}, pulses_per_second_sp : {900},
   time_sp : {5, 8}, position_sp : {0}, ramp_up_sp : {0, 4}, ramp_down_sp : {0, 4}]

InitRamp == InitWith({"large"}, RampProfiles)

NextRamp ==
  \/ Tick(FreshGap, 0)
  \/ \E run \in {0, 1} : SetRun(run)

SpecRamp == InitRamp /\ [][NextRamp]_vars

\* C6: the ramp progress percentage is in 0..100 in every reachable state.
C6_PercentInRange == ev3_tm.ramp.percent \in 0..100

\* C7: clearing run during a move goes to Stop in position mode and to RampDown
\* in timed and endless modes; with ramp_down_sp > 0 the tick that follows the
\* cancel of a timed or endless move does not process Stop.
C7_CancelRampsDown ==
  [][/\ (log'.op = "set_run" /\ log'.was = 1)
          => ev3_tm'.state = (IF ev3_tm.run_mode = "position" THEN "STOP"
                              ELSE "RAMP_DOWN")
     /\ (log.op = "set_run" /\ log.was = 1 /\ log'.op = "tick"
         /\ ev3_tm.run_mode \in {"forever", "time"} /\ ev3_tm.ramp_down_sp > 0)
          => ~log'.stop]_vars

(**************************** specification: power **************************)
\* every path that commands the output: open loop, the speed regulator (also
\* with a zero divisor), the position regulator of hold mode, a polarity flip

\* what the division by a zero speed_regulation_K may yield
DivZeroYields == {0, -1000000}

PowerProfiles ==
  [run_mode : {"forever", "position"}, regulation_mode : RegulationModes,
   stop_mode : {"hold"},
   duty_cycle_sp : {5, 100}, pulses_per_second_sp : {900},
   time_sp : {0}, position_sp : {1}, ramp_up_sp : {0}, ramp_down_sp : {0}]

InitPower == InitWith({"large"}, PowerProfiles)

NextPower ==
  \/ \E z \in DivZeroYields : Tick(FreshGap, z)
  \/ \E run \in {0, 1} : SetRun(run)
  \/ SetPolarityMode("inverted")
  \/ SetDutyCycleSp(-100)
  \/ SetSpeedRegulationK(0)

SpecPower == InitPower /\ [][NextPower]_vars

\* C5: the commanded power is in -100..100 in every reachable state.
C5_PowerInRange == ev3_tm.power \in -MAX_POWER..MAX_POWER

\* the speed regulator asked for more than full power and the output is full
C5_Witness ==
  /\ log.op = "tick" /\ log.reg_speed /\ log.arg > MAX_POWER
  /\ ev3_tm.power = MAX_POWER

(**************************** specification: time ***************************)
\* timed moves left alone: run is written only while the motor is idle

TimeProfiles ==
  [run_mode : {"time"}, regulation_mode : RegulationModes, stop_mode : {"coast"},
   duty_cycle_sp : {50, 100}, pulses_per_second_sp : {900},
   time_sp : {0, 3, 6}, position_sp : {0},
   ramp_up_sp : {0, 4, 10}, ramp_down_sp : {0, 4, 10}]

InitTime == InitWith({"large"}, TimeProfiles)

Start == ev3_tm.run = 0 /\ ev3_tm.state = "IDLE" /\ SetRun(1)

NextTime ==
  \/ Tick(FreshGap, 0)
  \/ Start

SpecTime == InitTime /\ [][NextTime]_vars

\* the last tick belonged to a move: it set the move up, ramped it or stopped it
InMove == log.op = "tick" /\ (ev3_tm.run = 1 \/ log.stop)

RampOrdered ==
  /\ ev3_tm.ramp.up.start = 0
  /\ ev3_tm.ramp.up.start <= ev3_tm.ramp.up.end
  /\ ev3_tm.ramp.up.end <= ev3_tm.ramp.down.start
  /\ ev3_tm.ramp.down.start <= ev3_tm.ramp.down.end
  /\ ev3_tm.ramp.down.end = ev3_tm.time_sp

\* C9: in a timed move with non-negative setpoints and no writes, a tick
\* processes Stop exactly when the elapsed counter has reached time_sp, so Stop
\* comes in the first such tick; and once the move is set up
\* 0 = up.start <= up.end <= down.start <= down.end = time_sp.
C9_TimedMoveEndsOnTime ==
  /\ [](InMove => RampOrdered)
  /\ [][(log'.op = "tick" /\ ev3_tm.run = 1)
          => (log'.stop <=> ev3_tm'.ramp.count >= ev3_tm.time_sp)]_vars

\* a move with three separate phases has just been stopped by its time
C9_Witness ==
  /\ log.op = "tick" /\ log.stop /\ ev3_tm.run = 0 /\ ev3_tm.state = "IDLE"
  /\ ev3_tm.time_sp > 0 /\ ev3_tm.ramp.count >= ev3_tm.time_sp
  /\ ev3_tm.ramp.count < ev3_tm.time_sp + TickMs
  /\ 0 < ev3_tm.ramp.up.end /\ ev3_tm.ramp.up.end < ev3_tm.ramp.down.start
  /\ ev3_tm.ramp.down.start < ev3_tm.ramp.down.end

(**************************** specification: live ***************************)
\* moves in every run mode under a periodic timer: started, cancelled while
\* running, emergency-stopped

LiveProfiles ==
  [run_mode : RunModes, regulation_mode : RegulationModes, stop_mode : {"brake"},
   duty_cycle_sp : {100}, pulses_per_second_sp : {900},
   time_sp : {6}, position_sp : {2}, ramp_up_sp : {4}, ramp_down_sp : {0, 4}]

InitLive == InitWith({"large"}, LiveProfiles)

\* run is cleared while a move runs; the elapsed counter of a move that was
\* never set up keeps its last value, so such a move is cancelled only below
\* MaxCount
Cancel == ev3_tm.run = 1 /\ ev3_tm.ramp.count <= MaxCount /\ SetRun(0)

Arm == ev3_tm.estop = 0 /\ \E token \in Tokens : SetEstop(0, token)

NextLive ==
  \/ PeriodicTick(FreshGap, 0)
  \/ SetRun(1)
  \/ Cancel
  \/ Arm

\* the hrtimer is periodic: the callback forwards it and restarts it, so a
\* tick that stays possible comes
SpecLive == InitLive /\ [][NextLive]_vars /\ WF_hist(TickBound /\ Beat)

Rested == ev3_tm.state = "IDLE" /\ ev3_tm.run = 0

\* C8: under a periodic tick a timed move reaches Idle with run = 0, and so
\* does a move of any run mode once run was cleared or the estop armed while
\* it ran.
C8_MovesComeToRest ==
  /\ (ev3_tm.run = 1 /\ ev3_tm.run_mode = "time") ~> Rested
  /\ (log.op = "set_run" /\ log.was \in {1, 3}) ~> Rested
  /\ (ev3_tm.run = 1 /\ Armed) ~> Rested

\* a timed move has ended by itself
C8_Witness ==
  /\ Rested /\ log.op = "tick" /\ log.idle /\ log.stop
  /\ ev3_tm.run_mode = "time" /\ ev3_tm.ramp.count >= ev3_tm.time_sp
  /\ ~Armed

(**************************** specification: isr ****************************)
\* encoder edges at low speed, fresh ones and ones inside the noise window

Gaps == {BounceGap, FreshGap}

IsrProfiles ==
  [run_mode : {"forever"}, regulation_mode : {"off"}, stop_mode : {"coast"},
   duty_cycle_sp : {0}, pulses_per_second_sp : {0},
   time_sp : {0}, position_sp : {0}, ramp_up_sp : {0}, ramp_down_sp : {0}]

InitIsr == InitWith({"large"}, IsrProfiles)

\* the first edge after the reset comes long after the zero in the ring
NextIsr ==
  \E int_gpio \in BOOLEAN, dir_gpio \in BOOLEAN,
     gap \in IF hist.n = 0 THEN {FreshGap} ELSE Gaps :
    Edge(MaxEdges, int_gpio, dir_gpio, gap)

SpecIsr == InitIsr /\ [][NextIsr]_vars

\* C10: two consecutive edges less than 13200 timer counts apart change
\* irq_tacho by at most one in total.
C10_BouncePairNetsOne ==
  (hist.n >= 2 /\ hist.gap < NoiseCounts) => Abs(hist.d1 + hist.d2) <= 1

(**************************** specification: dir ****************************)
\* edges on the low-speed path under every polarity and encoder mode

NextDir ==
  \/ \E int_gpio \in BOOLEAN, dir_gpio \in BOOLEAN, gap \in Gaps :
       Edge(MaxEdges, int_gpio, dir_gpio, gap)
  \/ \E v \in Polarities : SetPolarityMode(v)
  \/ \E v \in Polarities : SetEncoderMode(v)

SpecDir == InitIsr /\ [][NextDir]_vars

SameLevels == hist.int_state = hist.dir_state

SameFlags == ev3_tm.polarity_mode = ev3_tm.encoder_mode

\* C11: an edge on the low-speed path resolves run_direction to FORWARD exactly
\* when the interrupt level equals the direction level as the handler reads it
\* and the two polarity flags are equal, or the levels differ and exactly one
\* flag is inverted; otherwise to REVERSE.
C11_DirectionTable ==
  log.op = "edge" =>
    /\ ev3_tm.run_direction \in {"FORWARD", "REVERSE"}
    /\ ev3_tm.run_direction = "FORWARD" <=> (SameLevels <=> SameFlags)

\* both flags inverted, equal levels: FORWARD
C11_Witness ==
  /\ log.op = "edge" /\ SameLevels /\ hist.int_state
  /\ ev3_tm.polarity_mode = "inverted" /\ ev3_tm.encoder_mode = "inverted"
  /\ ev3_tm.run_direction = "FORWARD"

(************************** specification: progress *************************)
\* calculate_ramp_progress on its own, over small arguments of either sign

Progress(numerator, denominator) ==
  /\ log' = [NoLog("calculate_ramp_progress") EXCEPT
               !.arg = numerator, !.was = denominator,
               !.ret = calculate_ramp_progress(numerator, denominator)]
  /\ UNCHANGED <<ev3_tm, port, hist>>

NextProgress ==
  \E numerator \in -3..MaxElapsed, denominator \in -2..MaxWindow :
    Progress(numerator, denominator)

SpecProgress == InitIsr /\ [][NextProgress]_vars

\* the quotient a / b rounded towards zero, said without dividing
IsQuotient(q, a, b) ==
  /\ Abs(q) * Abs(b) <= Abs(a)
  /\ Abs(a) < (Abs(q) + 1) * Abs(b)
  /\ (q > 0 => (a > 0 <=> b > 0))
  /\ (q < 0 => (a > 0 <=> b < 0))

\* C12: calculate_ramp_progress(elapsed, window) is 100 when window <= elapsed + 2
\* or window = 0, and otherwise elapsed * 100 / window in integer division; so
\* window = elapsed + 2 gives 100 and window = elapsed + 3 gives
\* elapsed * 100 / (elapsed + 3).
C12_ProgressFunction ==
  log.op = "calculate_ramp_progress" =>
    LET elapsed == log.arg
        window == log.was
    IN /\ (window <= elapsed + 2 \/ window = 0) => log.ret = 100
       /\ ~(window <= elapsed + 2 \/ window = 0)
            => IsQuotient(log.ret, elapsed * 100, window)
       /\ (window = elapsed + 3 /\ elapsed >= 0)
            => log.ret = (elapsed * 100) \div (elapsed + 3)

\* the window is three longer than the elapsed time: below 100
C12_Witness ==
  /\ log.op = "calculate_ramp_progress"
  /\ log.arg = 9 /\ log.was = 12 /\ log.ret = 75

(**************************** specification: phase **************************)
\* whole ramp phases: windows of 10 ms, apart and overlapping, in every run
\* mode, with cancels and one encoder edge

PhaseProfiles ==
  [run_mode : RunModes, regulation_mode : RegulationModes, stop_mode : {"coast"},
   duty_cycle_sp : {100}, pulses_per_second_sp : {900},
   time_sp : {6, 20}, position_sp : {1}, ramp_up_sp : {0, 10}, ramp_down_sp : {0, 10}]

InitPhase == InitWith({"large"}, PhaseProfiles)

NextPhase ==
  \/ TickUpTo(MaxPhaseCount, FreshGap, 0)
  \/ Start
  \/ SetRun(0)
  \/ Edge(MaxCtlEdges, TRUE, FALSE, FreshGap)

SpecPhase == InitPhase /\ [][NextPhase]_vars

\* a step from one tick to the next with nothing in between, the state
\* machine in state s before and after
TickInPhase(s) ==
  /\ log.op = "tick" /\ log'.op = "tick"
  /\ ev3_tm.state = s /\ ev3_tm'.state = s

\* ramp.percent never falls from one tick to the next within a ramp-up phase
\* or within a ramp-down phase
C13_PercentNeverFalls ==
  [][(\E s \in {"RAMP_UP", "RAMP_DOWN", "POSITION_RAMP_DOWN"} : TickInPhase(s))
       => ev3_tm'.ramp.percent >= ev3_tm.ramp.percent]_vars

\* C13: from one tick to the next ramp.percent never falls within a ramp-up
\* phase and never rises within a ramp-down phase in RampDown.
C13_PercentFollowsPhase ==
  [][/\ TickInPhase("RAMP_UP") => ev3_tm'.ramp.percent >= ev3_tm.ramp.percent
     /\ TickInPhase("RAMP_DOWN") => ev3_tm'.ramp.percent <= ev3_tm.ramp.percent]_vars

\* the middle of a ramp-down: the tick began and ended in RampDown
C13_Witness ==
  /\ log.op = "tick" /\ log.cases = <<"RAMP_DOWN">> /\ ev3_tm.state = "RAMP_DOWN"
  /\ ev3_tm.ramp.percent \in 1..99
  /\ ev3_tm.ramp.count >= ev3_tm.ramp.down.start + 2 * TickMs

\* the last tick left RampUp: it processed RAMP_UP and RAMP_CONST after it
LeftRampUp ==
  /\ log.op = "tick"
  /\ \E i \in 1..Len(log.cases) - 1 :
       log.cases[i] = "RAMP_UP" /\ log.cases[i + 1] = "RAMP_CONST"

\* in every ramp-up phase ramp.percent is 100 in the tick that leaves RampUp
C14_RampUpReachesFull == LeftRampUp => log.ret = 100

\* C14: in a ramp-up phase whose up-window was not shortened
\* (ramp.up.end = ramp.up.full) ramp.percent is 100 in the tick that leaves
\* RampUp.
C14_WholeRampUpReachesFull ==
  (LeftRampUp /\ ev3_tm.ramp.up.end = ev3_tm.ramp.up.full) => log.ret = 100

\* a whole up-window of 10 ms has just been left
C14_Witness ==
  /\ LeftRampUp /\ ev3_tm.ramp.up.end = ev3_tm.ramp.up.full
  /\ ev3_tm.ramp.up.full = 10 /\ ev3_tm.ramp.count = 10
  /\ log.ret = 100 /\ ev3_tm.state = "RAMP_CONST"

(*************************** specification: scenario ************************)
\* an endless open-loop move at half duty with a ramp-up setpoint of 500 ms

ScenarioProfiles ==
  [run_mode : {"forever"}, regulation_mode : {"off"}, stop_mode : {"coast"},
   duty_cycle_sp : {50}, pulses_per_second_sp : {0},
   time_sp : {0}, position_sp : {0}, ramp_up_sp : {500}, ramp_down_sp : {0}]

InitScenario == InitWith({"large"}, ScenarioProfiles)

NextScenario ==
  \/ TickUpTo(MaxScenarioCount, FreshGap, 0)
  \/ Start
  \/ Cancel

SpecScenario == InitScenario /\ [][NextScenario]_vars

\* the last tick belonged to the move and no stop has been asked for
Underway ==
  log.op = "tick" /\ ev3_tm.run = 1 /\ ev3_tm.state \in {"RAMP_UP", "RAMP_CONST"}

\* tick 125 has ramp.count = 248; 250 ms after the start ramp.count = 250
AtQuarterSecond == Underway /\ ev3_tm.ramp.count \in {248, 250}

\* at tick 125, 250 ms after the start, the ramp percentage is about 50
C15_HalfWayAtQuarterSecond == AtQuarterSecond => ev3_tm.ramp.percent \in 45..55

\* C15: with duty_cycle_sp = 50 the up-window is 50 * 500 / 100 = 250 ms long:
\* the percentage is about 50 at ramp.count = 124 (tick 63), and at tick 125,
\* 250 ms after the start, it is 100 and the power is 50.
C15_FullAtQuarterSecond ==
  /\ Underway => ev3_tm.ramp.up.full = 250
  /\ (Underway /\ ev3_tm.ramp.count = 124) => ev3_tm.ramp.percent \in 45..55
  /\ AtQuarterSecond => (ev3_tm.ramp.percent = 100 /\ ev3_tm.power = 50)

\* tick 125: still in RampUp, and at full percentage
C15_Witness ==
  /\ AtQuarterSecond /\ ev3_tm.ramp.count = 248 /\ ev3_tm.state = "RAMP_UP"
  /\ ev3_tm.ramp.percent = 100 /\ ev3_tm.power = 50

\* C16: from tick 250 (500 ms) on, until a stop is asked for, ramp.percent is
\* 100 and the commanded power is 50.
C16_FullFromHalfSecond ==
  (Underway /\ ev3_tm.ramp.count >= 498)
    => (ev3_tm.ramp.percent = 100 /\ ev3_tm.power = 50)

\* 500 ms after the start, and a tick later
C16_Witness ==
  /\ Underway /\ ev3_tm.ramp.count = 502 /\ ev3_tm.state = "RAMP_CONST"
  /\ ev3_tm.ramp.percent = 100 /\ ev3_tm.power = 50
  /\ port.command = "run" /\ port.duty_cycle = 50

(*************************** specification: position ***********************)
\* a positioning move of a motor that turns at a constant thousand pulses a
\* second, more than the 900 of the motor table

\* timer counts between two pulses
PulseGap == TimerHz \div 1000

PositionProfiles ==
  [run_mode : {"position"}, regulation_mode : RegulationModes,
   stop_mode : {"coast"}, duty_cycle_sp : {100},
   pulses_per_second_sp : {MaxPulsesTacho},
   time_sp : {0}, position_sp : {100}, ramp_up_sp : {0}, ramp_down_sp : {200}]

InitPosition == InitWith({"large"}, PositionProfiles)

Pulse == ev3_tm.run = 1 /\ Edge(MaxPulses, TRUE, FALSE, PulseGap)

NextPosition ==
  \/ TickUpTo(MaxPositionCount, FreshGap, 0)
  \/ Start
  \/ Pulse

SpecPosition == InitPosition /\ [][NextPosition]_vars

\* C17: a tick that finds the position within the stopping distance of the
\* target takes the state machine to POSITION_RAMP_DOWN in that same tick.
C17_NearEntersPositionRampDown ==
  (log.op = "tick" /\ log.near)
    => \E i \in 1..Len(log.cases) : log.cases[i] = "POSITION_RAMP_DOWN"

(*************************** specification: regulator **********************)
\* an endless speed-regulated move asked to run far faster than the motor
\* table allows, of a motor that stands still or turns at a thousand pulses a
\* second; the setpoint may be taken back to zero

RegulatorProfiles ==
  [run_mode : {"forever"}, regulation_mode : {"on"}, stop_mode : {"coast"},
   duty_cycle_sp : {0}, pulses_per_second_sp : {2000},
   time_sp : {0}, position_sp : {0}, ramp_up_sp : {0}, ramp_down_sp : {0}]

InitRegulator == InitWith({"large"}, RegulatorProfiles)

NextRegulator ==
  \/ TickUpTo(MaxRegulatedCount, FreshGap, 0)
  \/ Start
  \/ Pulse
  \/ ev3_tm.run = 1 /\ ev3_tm.pulses_per_second_sp # 0 /\ SetPulsesPerSecondSp(0)

SpecRegulator == InitRegulator /\ [][NextRegulator]_vars

\* the last step was a tick in which the speed regulator ran and computed
\* more than full power, for a setpoint beyond the table maximum
Saturated ==
  /\ log.op = "tick" /\ log.reg_speed /\ Abs(log.arg) > MAX_POWER
  /\ ev3_tm.pulses_per_second_sp > MaxPulsesPerSec(ev3_tm.motor_type)

\* the computed power is not beyond +-100 in two ticks that follow one another
C18_NoSaturationTwice == [][~(Saturated /\ Saturated')]_vars

\* C18: in every tick in which the speed regulator computes more than full
\* power for a non-zero setpoint, which may be tick after tick, the integral
\* is left as it was before the tick and the applied power is +-100.
C18_SaturationFreezesIntegral ==
  [][(Saturated' /\ ev3_tm'.speed_reg_sp # 0)
       => /\ ev3_tm'.pid.I = ev3_tm.pid.I
          /\ ev3_tm'.power = (IF log'.arg > 0 THEN MAX_POWER ELSE -MAX_POWER)]_vars

\* a standing motor, many ticks into the move: 106 computed, 100 applied
C18_Witness ==
  /\ Saturated /\ ev3_tm.ramp.count >= 20 /\ ev3_tm.pulses_per_second = 0
  /\ ev3_tm.speed_reg_sp = MaxPulsesTacho
  /\ log.arg = 106 /\ ev3_tm.power = MAX_POWER /\ ev3_tm.pid.I = 0

\* C19: a tick in which the speed regulator ran with a clamped setpoint of
\* exactly 0 leaves the power at exactly 0.
C19_ZeroSetpointZeroPower ==
  (log.op = "tick" /\ log.reg_speed /\ ev3_tm.speed_reg_sp = 0)
    => ev3_tm.power = 0

\* the motor still turns and the terms ask for power, yet none is applied
C19_Witness ==
  /\ log.op = "tick" /\ log.reg_speed /\ ev3_tm.speed_reg_sp = 0
  /\ ev3_tm.pulses_per_second # 0 /\ ev3_tm.pid.I # 0 /\ log.arg # 0
  /\ ev3_tm.power = 0

(*************************** specification: output *************************)
\* open-loop moves that are started and cancelled under every stop mode

OutputProfiles ==
  [run_mode : {"forever", "time"}, regulation_mode : {"off"},
   stop_mode : StopModes, duty_cycle_sp : {-100, 50},
   pulses_per_second_sp : {0}, time_sp : {4}, position_sp : {0},
   ramp_up_sp : {0}, ramp_down_sp : {0, 4}]

InitOutput == InitWith({"large"}, OutputProfiles)

NextOutput ==
  \/ Tick(FreshGap, 0)
  \/ Start
  \/ Cancel
  \/ \E v \in StopModes : SetStopMode(v)

SpecOutput == InitOutput /\ [][NextOutput]_vars

\* what the output mapper did, in the last step, whenever it found power 0
AtZeroPower(command) ==
  \A i \in 1..Len(log.mapped) :
    log.mapped[i].power = 0 => log.mapped[i].command = command[log.mapped[i].stop_mode]

\* at power 0 the output mapper issues COAST in coast mode, BRAKE in brake
\* mode and no motor command in hold mode
C20_HoldIssuesNothing ==
  AtZeroPower([coast |-> "coast", brake |-> "brake", hold |-> "none"])

\* C20: at power 0 the output mapper issues COAST in coast mode, and BRAKE in
\* brake mode and in hold mode alike.
C20_HoldIssuesBrake ==
  AtZeroPower([coast |-> "coast", brake |-> "brake", hold |-> "brake"])

\* the tick that stops a move in hold mode: BRAKE, then a duty cycle of 0
C20_Witness ==
  /\ log.op = "tick" /\ ev3_tm.stop_mode = "hold" /\ ev3_tm.power = 0
  /\ \E i \in 1..Len(log.mapped) :
       /\ log.mapped[i].power = 0 /\ log.mapped[i].stop_mode = "hold"
       /\ log.mapped[i].command = "brake"
  /\ port.command = "brake" /\ port.duty_cycle = 0

(*************************** specification: floor **************************)
\* slow endless moves, open-loop and speed-regulated, of a motor that stands
\* still

FloorProfiles ==
  [run_mode : {"forever"}, regulation_mode : RegulationModes,
   stop_mode : {"coast"}, duty_cycle_sp : {-5, 5, 50},
   pulses_per_second_sp : {-45, 45},
   time_sp : {0}, position_sp : {0}, ramp_up_sp : {0}, ramp_down_sp : {0}]

InitFloor == InitWith({"large"}, FloorProfiles)

NextFloor ==
  \/ Tick(FreshGap, 0)
  \/ Start
  \/ Cancel
  \/ \E v \in Polarities : SetPolarityMode(v)

SpecFloor == InitFloor /\ [][NextFloor]_vars

Sign(x) == IF x > 0 THEN 1 ELSE IF x < 0 THEN -1 ELSE 0

\* C21: a non-zero power that the output mapper applies with regulation off
\* comes out with a magnitude of at least 10 (1..9 become 10, the sign is
\* kept); with regulation on it comes out as it went in.
C21_OpenLoopFloor ==
  \A i \in 1..Len(log.mapped) :
    LET e == log.mapped[i] IN
    e.power # 0 =>
      /\ e.regulation_mode = "off" =>
           /\ Abs(e.applied) >= MinOpenLoopPower
           /\ Sign(e.applied) = Sign(e.power)
           /\ e.applied = IF Abs(e.power) < MinOpenLoopPower
                          THEN Sign(e.power) * MinOpenLoopPower ELSE e.power
      /\ e.regulation_mode = "on" => e.applied = e.power

\* an open-loop power of -5 came out as -10
C21_Witness ==
  /\ log.op = "tick"
  /\ \E i \in 1..Len(log.mapped) :
       /\ log.mapped[i].power = -5 /\ log.mapped[i].regulation_mode = "off"
       /\ log.mapped[i].applied = -10
  /\ ev3_tm.power = -10 /\ port.duty_cycle = 10

(*************************** specification: hold ***************************)
\* endless and timed moves, open-loop and speed-regulated, started and
\* cancelled under every stop mode, of a motor that stands still

HoldProfiles ==
  [run_mode : {"forever", "time"}, regulation_mode : RegulationModes,
   stop_mode : StopModes, duty_cycle_sp : {50},
   pulses_per_second_sp : {450}, time_sp : {4}, position_sp : {0},
   ramp_up_sp : {0}, ramp_down_sp : {0}]

InitHold == InitWith({"large"}, HoldProfiles)

NextHold ==
  \/ Tick(FreshGap, 0)
  \/ Start
  \/ Cancel
  \/ \E v \in StopModes : SetStopMode(v)

SpecHold == InitHold /\ [][NextHold]_vars

\* C22: the position regulator runs in a tick if and only if the tick ends
\* with run = 0 and stop_mode = hold; the speed regulator runs in no tick that
\* ends with run = 0.
C22_RegulatorsByRunFlag ==
  log.op = "tick" =>
    /\ log.reg_pos <=> (ev3_tm.run = 0 /\ ev3_tm.stop_mode = "hold")
    /\ log.reg_speed => ev3_tm.run # 0
    /\ ~(log.reg_pos /\ log.reg_speed)

\* the tick that ends a speed-regulated move in hold mode: the position
\* regulator runs, the speed regulator does not
C22_Witness ==
  /\ log.op = "tick" /\ log.idle /\ log.reg_pos /\ ~log.reg_speed
  /\ ev3_tm.regulation_mode = "on" /\ ev3_tm.stop_mode = "hold"
  /\ ev3_tm.run = 0

\* C23: a tick in which the state machine reaches IDLE clears run and
\* schedules exactly one notification; a tick that starts with run = 0
\* schedules none.
C23_IdleNotifiesOnce ==
  [][log'.op = "tick" =>
       /\ log'.idle => (ev3_tm'.run = 0 /\ log'.notify = 1)
       /\ ev3_tm.run = 0 => log'.notify = 0]_vars

\* a timed move ran out: STOP and IDLE in one tick, one notification
C23_Witness ==
  /\ log.op = "tick" /\ log.idle /\ log.notify = 1 /\ ev3_tm.run = 0
  /\ ev3_tm.state = "IDLE" /\ ev3_tm.run_mode = "time"
  /\ Len(log.cases) >= 2 /\ log.cases[Len(log.cases)] = "IDLE"

(*************************** specification: reset **************************)
\* positioning moves with the encoder turning, modes and gains rewritten, and
\* the reset command at any moment

ResetProfiles ==
  [run_mode : {"position"}, regulation_mode : RegulationModes,
   stop_mode : {"brake"}, duty_cycle_sp : {50},
   pulses_per_second_sp : {450}, time_sp : {4}, position_sp : {2},
   ramp_up_sp : {4}, ramp_down_sp : {4}]

InitReset == InitWith({"large", "medium"}, ResetProfiles)

NextReset ==
  \/ Tick(FreshGap, 0)
  \/ Start
  \/ Edge(MaxCtlEdges, TRUE, FALSE, FreshGap)
  \/ SetReset
  \/ SetPolarityMode("inverted")
  \/ SetEncoderMode("inverted")
  \/ SetSpeedRegulationK(DefaultKk + 1)

SpecReset == InitReset /\ [][NextReset]_vars

\* what ev3_tacho_motor_reset leaves in the fields the reset is known by
ResetState(tm) ==
  /\ \A i \in 0..(TACHO_SAMPLES - 1) : tm.tacho_samples[i] = 0
  /\ tm.tacho_samples_head = 0
  /\ tm.state = "IDLE" /\ tm.run = 0 /\ tm.power = 0
  /\ tm.tacho = 0 /\ tm.irq_tacho = 0
  /\ tm.speed = 0 /\ tm.pulses_per_second = 0
  /\ tm.duty_cycle_sp = 0 /\ tm.pulses_per_second_sp = 0 /\ tm.time_sp = 0
  /\ tm.position_sp = 0 /\ tm.ramp_up_sp = 0 /\ tm.ramp_down_sp = 0
  /\ tm.speed_reg_sp = 0
  /\ tm.run_mode = "forever" /\ tm.regulation_mode = "off"
  /\ tm.stop_mode = "coast" /\ tm.position_mode = "absolute"
  /\ tm.polarity_mode = "normal" /\ tm.encoder_mode = "normal"
  /\ tm.pid.P = 0 /\ tm.pid.I = 0 /\ tm.pid.D = 0
  /\ tm.pid.speed_regulation_P = DefaultKp
  /\ tm.pid.speed_regulation_I = DefaultKi
  /\ tm.pid.speed_regulation_D = DefaultKd
  /\ tm.pid.speed_regulation_K = DefaultKk

\* C24: after the reset command, and after attach, the ring is zero with
\* head 0, the state is IDLE, run, power, both position parts and the measured
\* speed are 0, every setpoint is 0, every mode is at its default, the PID
\* terms are 0 and the gains are at their defaults.
C24_ResetRestoresDefaults ==
  /\ log.op = "set_reset" => ResetState(ev3_tm)
  /\ \A t \in {"large", "medium"} : ResetState(ev3_tacho_motor_probe(t).tm)

\* a reset while the motor was driven and after an encoder edge
C24_Witness ==
  /\ log.op = "set_reset" /\ ResetState(ev3_tm)
  /\ hist.n > 0 /\ port.command = "run" /\ port.duty_cycle > 0

(****************************** elapsed counter ****************************)
\* checked over the moves of SpecPhase

\* the step is a tick
TickStep == log'.op = "tick" /\ vars' # vars

\* the tick starts with run set in one of the four ramping states
Advances == ev3_tm.run # 0 /\ ev3_tm.state \in Ramping

SetsUp == \E i \in 1..Len(log'.cases) : log'.cases[i] = "SETUP_RAMP_REGULATION"

\* C25: a tick adds exactly 2 to ramp.count if and only if it starts with run
\* set in RAMP_UP, RAMP_CONST, POSITION_RAMP_DOWN or RAMP_DOWN; the loop adds
\* nothing, however many states it chains, and only SETUP_RAMP_REGULATION
\* sets the count, to 0.
C25_CountAdvancesOnce ==
  [][TickStep =>
       /\ Advances => ev3_tm'.ramp.count = ev3_tm.ramp.count + TickMs
       /\ ~Advances => ev3_tm'.ramp.count = (IF SetsUp THEN 0 ELSE ev3_tm.ramp.count)
       /\ log'.count_inc = (IF Advances THEN 1 ELSE 0)]_vars

\* a tick that chained RAMP_DOWN, STOP and IDLE and advanced the count once
C25_Witness ==
  /\ log.op = "tick" /\ log.cases = <<"RAMP_DOWN", "STOP", "IDLE">>
  /\ log.count_inc = 1 /\ ev3_tm.ramp.count >= ev3_tm.ramp.down.end
  /\ ev3_tm.ramp.count > 0

(*************************** specification: race ***************************)
\* the STOP case of the timer callback taken one memory access at a time, with
\* the edge handler free to run in between: the source takes no lock and masks
\* no interrupt around lines 1406-1412, and irq_mutex is written by the edge
\* handler and read by nobody.
\* hist.pc is the place of the timer callback inside the STOP case, hist.reg
\* the value it computed from its read of irq_tacho, hist.pos0 the position
\* when the case began and hist.net the counts of the edges handled since.

RaceProfiles ==
  [run_mode : {"forever", "position"}, regulation_mode : {"off"},
   stop_mode : {"coast"}, duty_cycle_sp : {50},
   pulses_per_second_sp : {0}, time_sp : {0}, position_sp : {2},
   ramp_up_sp : {0}, ramp_down_sp : {0}]

InitRace == InitWith({"large"}, RaceProfiles)

position == ev3_tm.tacho + ev3_tm.irq_tacho

InStop == hist.pc \in {"read", "wrote"}

\* the tick that finds run set and the state STOP, up to the read of tacho
\* and irq_tacho in line 1407 or 1410
StopRead ==
  /\ ~InStop /\ ev3_tm.run # 0 /\ ev3_tm.state = "STOP"
  /\ LET w == calculate_speed(Begin(World, "tick"), TimerAt(FreshGap))
     IN /\ Commit([w EXCEPT !.log.cases = <<"STOP">>])
        /\ hist' = [hist EXCEPT
                      !.pc = "read",
                      !.reg = IF ev3_tm.run_mode = "position"
                              THEN position - ev3_tm.ramp.position_sp
                              ELSE position,
                      !.pos0 = position,
                      !.net = 0]

\* the write of line 1407 (irq_tacho) or 1410 (tacho)
StopWriteFirst ==
  /\ hist.pc = "read"
  /\ ev3_tm' = IF ev3_tm.run_mode = "position"
               THEN [ev3_tm EXCEPT !.irq_tacho = hist.reg]
               ELSE [ev3_tm EXCEPT !.tacho = hist.reg]
  /\ hist' = [hist EXCEPT !.pc = "wrote"]
  /\ UNCHANGED <<port, log>>

\* the write of line 1408 (tacho) or 1411 (irq_tacho), and the rest of the
\* tick: the end of the STOP case, IDLE, and what follows the loop
StopWriteSecond ==
  /\ hist.pc = "wrote"
  /\ LET tm == ev3_tm
         w1 == IF tm.run_mode = "position"
               THEN [World EXCEPT !.tm.tacho = tm.ramp.position_sp]
               ELSE [World EXCEPT !.tm.irq_tacho = 0]
         w2 == ev3_tacho_motor_set_power([w1 EXCEPT !.tm.speed_reg_sp = 0], 0)
         w3 == reprocess_loop(
                 Reprocess([w2 EXCEPT !.tm.pid.P = 0, !.tm.pid.I = 0,
                                      !.tm.pid.D = 0, !.log.stop = TRUE],
                           "IDLE"), 0)
         w4 == IF w3.tm.run # 0 /\ w3.tm.regulation_mode = "on"
               THEN regulate_speed(w3, 0) ELSE w3
     IN Commit(no_run(w4))
  /\ hist' = [hist EXCEPT !.pc = "done"]

\* the edge handler, at any moment
RaceEdge(int_gpio) ==
  /\ hist.n < MaxRaceEdges
  /\ LET w == tacho_motor_isr(IF InStop THEN World ELSE Begin(World, "edge"),
                              int_gpio, FALSE, TimerAt(FreshGap))
     IN /\ Commit(w)
        /\ hist' = [hist EXCEPT !.n = @ + 1,
                                !.net = @ + (w.tm.irq_tacho - ev3_tm.irq_tacho)]

NextRace ==
  \/ StopRead
  \/ StopWriteFirst
  \/ StopWriteSecond
  \/ \E int_gpio \in BOOLEAN : RaceEdge(int_gpio)
  \/ ~InStop /\ (ev3_tm.run = 0 \/ ev3_tm.state # "STOP") /\ Tick(FreshGap, 0)
  \/ ~InStop /\ Start
  \/ ~InStop /\ SetRun(0)

SpecRace == InitRace /\ [][NextRace]_vars

\* C26: when the STOP case is through, the position is the position it began
\* with plus the counts of the edges handled meanwhile.
C26_StopKeepsPosition ==
  hist.pc = "done" => position = hist.pos0 + hist.net

(********************************* STOP case ********************************)

\* the last step was a tick that processed STOP
Stopped == log.op = "tick" /\ log.stop

\* STOP leaves the live delta irq_tacho at 0 in every run mode
C27_StopZeroesDelta == Stopped => ev3_tm.irq_tacho = 0

\* C27: STOP keeps the position; in the modes forever and time it leaves
\* irq_tacho at 0 and the whole position in tacho; in position mode it leaves
\* the target in tacho and the distance from the target in irq_tacho.
\* Checked over the moves of SpecPhase.
C27_StopSplitsPosition ==
  [][(TickStep /\ Stopped') =>
       /\ position' = position
       /\ ev3_tm.run_mode \in {"forever", "time"} =>
            (ev3_tm'.irq_tacho = 0 /\ ev3_tm'.tacho = position)
       /\ ev3_tm.run_mode = "position" =>
            /\ ev3_tm'.tacho = ev3_tm'.ramp.position_sp
            /\ ev3_tm'.irq_tacho = position - ev3_tm'.ramp.position_sp]_vars

\* a positioning move cancelled short of its target
C27_Witness ==
  /\ Stopped /\ ev3_tm.run_mode = "position"
  /\ ev3_tm.tacho = ev3_tm.ramp.position_sp /\ ev3_tm.irq_tacho # 0
  /\ ev3_tm.state = "IDLE"

\* C28: a tick that processes STOP reaches IDLE as well, clears run and leaves
\* the regulator's speed setpoint at 0; under coast and brake it ends with the
\* power and the PID terms P, I, D at 0.  Checked over the moves of SpecHold.
C28_StopEndsIdle ==
  Stopped =>
    /\ log.idle /\ ev3_tm.state = "IDLE" /\ ev3_tm.run = 0
    /\ ev3_tm.speed_reg_sp = 0
    /\ ev3_tm.stop_mode \in {"coast", "brake"} =>
         /\ ev3_tm.power = 0
         /\ ev3_tm.pid.P = 0 /\ ev3_tm.pid.I = 0 /\ ev3_tm.pid.D = 0

\* a speed-regulated move under power is stopped in brake mode
C28_Witness ==
  /\ Stopped /\ log.idle /\ ev3_tm.regulation_mode = "on"
  /\ ev3_tm.stop_mode = "brake" /\ ev3_tm.power = 0
  /\ \E i \in 1..Len(log.mapped) :
       log.mapped[i].power = 0 /\ log.mapped[i].command = "brake"
  /\ port.command = "brake" /\ port.duty_cycle = 0

(*************************** specification: armed **************************)
\* a positioning move one pulse long of a motor that stands still, with the
\* estop armed at any moment and the setters written while it is armed

ArmedProfiles ==
  [run_mode : {"position"}, regulation_mode : {"off"},
   stop_mode : StopModes, duty_cycle_sp : {50},
   pulses_per_second_sp : {0}, time_sp : {0}, position_sp : {1},
   ramp_up_sp : {0}, ramp_down_sp : {0}]

InitArmed == InitWith({"large"}, ArmedProfiles)

NextArmed ==
  \/ Tick(FreshGap, 0)
  \/ Arm
  \/ \E run \in {0, 1} : SetRun(run)
  \/ Armed /\ \E v \in StopModes : SetStopMode(v)
  \/ Armed /\ \E v \in Polarities : SetPolarityMode(v)
  \/ Armed /\ SetDutyCycleSp(-100)

SpecArmed == InitArmed /\ [][NextArmed]_vars

\* C29: while the estop is armed, every tick leaves the applied power at 0.
C29_ArmedMeansNoPower ==
  (Armed /\ log.op = "tick") => ev3_tm.power = 0

(*************************** specification: approach ***********************)
\* a positioning move, forwards or backwards, with a short ramp-down, of a
\* motor that turns towards the target at a thousand pulses a second

ApproachProfiles ==
  [run_mode : {"position"}, regulation_mode : RegulationModes,
   stop_mode : {"coast"}, duty_cycle_sp : {100},
   pulses_per_second_sp : {MaxPulsesTacho},
   time_sp : {0}, position_sp : {MaxPulses, -MaxPulses},
   ramp_up_sp : {0}, ramp_down_sp : {4}]

InitApproach == InitWith({"large"}, ApproachProfiles)

\* a pulse in the direction of the target
PulseTowards ==
  ev3_tm.run = 1 /\ Edge(MaxPulses, ev3_tm.position_sp > 0, FALSE, PulseGap)

NextApproach ==
  \/ TickUpTo(MaxPositionCount, FreshGap, 0)
  \/ Start
  \/ PulseTowards

SpecApproach == InitApproach /\ [][NextApproach]_vars

\* the tick (the step) processed the given case
Processed(s) == \E i \in 1..Len(log'.cases) : log'.cases[i] = s

\* the position the tick finds has reached or passed the target
Reached ==
  IF ev3_tm'.ramp.direction > 0 THEN ev3_tm'.ramp.position_sp <= position
  ELSE ev3_tm'.ramp.position_sp >= position

\* C30: a tick that processes POSITION_RAMP_DOWN goes on to STOP if and only
\* if the position has reached or passed the target in the ramp direction;
\* if it has not, the state stays POSITION_RAMP_DOWN, and a down-window that
\* has elapsed (down.end <= count) gets down.end = count + 100.
C30_StopOnlyAtTarget ==
  [][(TickStep /\ Processed("POSITION_RAMP_DOWN")) =>
       /\ Processed("STOP") <=> Reached
       /\ ~Reached => ev3_tm'.state = "POSITION_RAMP_DOWN"
       /\ (~Reached /\ ev3_tm.state = "POSITION_RAMP_DOWN") =>
            ev3_tm'.ramp.down.end =
              (IF ev3_tm.ramp.down.end <= ev3_tm'.ramp.count
               THEN ev3_tm'.ramp.count + NudgeMs
               ELSE ev3_tm.ramp.down.end)]_vars

\* short of the target with the down-window elapsed: the end is pushed out
C30_Witness ==
  /\ log.op = "tick" /\ log.cases = <<"POSITION_RAMP_DOWN">>
  /\ ev3_tm.state = "POSITION_RAMP_DOWN"
  /\ ev3_tm.ramp.down.end = ev3_tm.ramp.count + NudgeMs
  /\ ev3_tm.ramp.position_sp > position /\ ev3_tm.ramp.direction > 0
  /\ ev3_tm.pulses_per_second > 0

(******************************* endless moves *****************************)
\* checked over the moves of SpecRamp

\* the step is a tick of an endless move that nobody has asked to stop
EndlessTick ==
  /\ TickStep /\ ev3_tm.run_mode = "forever" /\ ev3_tm.run # 0
  /\ ev3_tm.estop = 0
  /\ ev3_tm.state \in {"RUN_FOREVER", "RAMP_UP", "RAMP_CONST"}

\* C31: a tick of an endless move processes neither RAMP_DOWN nor STOP and
\* leaves run set; it ends in RAMP_UP or RAMP_CONST, in RAMP_CONST once the
\* up-window has elapsed, and a move in RAMP_CONST stays there.
C31_EndlessStaysConst ==
  [][EndlessTick =>
       /\ ~Processed("RAMP_DOWN") /\ ~Processed("STOP") /\ ev3_tm'.run # 0
       /\ ev3_tm'.state \in {"RAMP_UP", "RAMP_CONST"}
       /\ ev3_tm'.ramp.count >= ev3_tm'.ramp.up.end => ev3_tm'.state = "RAMP_CONST"
       /\ ev3_tm.state = "RAMP_CONST" => ev3_tm'.state = "RAMP_CONST"]_vars

\* an endless move after its ramp-up, still in RAMP_CONST at the count bound
C31_Witness ==
  /\ log.op = "tick" /\ log.cases = <<"RAMP_CONST">>
  /\ ev3_tm.run_mode = "forever" /\ ev3_tm.run = 1
  /\ ev3_tm.state = "RAMP_CONST" /\ ev3_tm.ramp.up.end > 0
  /\ ev3_tm.ramp.count >= MaxCount
  /\ ev3_tm.ramp.down.start = ev3_tm.ramp.count

(******************************* the run flag ******************************)
\* checked over the moves of SpecEstop

\* C32: every call of set_run leaves run = 1, whatever is written; run goes
\* from set to clear only in a tick that processes IDLE or in a reset, and a
\* tick that processes IDLE clears it.
C32_RunSetUntilIdle ==
  [][/\ log'.op = "set_run" => ev3_tm'.run = 1
     /\ (ev3_tm.run # 0 /\ ev3_tm'.run = 0)
          => ((log'.op = "tick" /\ log'.idle) \/ log'.op = "set_reset")
     /\ (TickStep /\ log'.idle) => ev3_tm'.run = 0]_vars

\* set_run(0) was written in the middle of a move: the flag still reads 1
C32_Witness ==
  /\ log.op = "set_run" /\ log.was = 1
  /\ ev3_tm.state = "RAMP_DOWN" /\ ev3_tm.run = 1 /\ ev3_tm.estop = 0

(*************************** specification: speed **************************)
\* edges at a steady 100 pulses per second, some of them bounces or against
\* the running direction, between ticks of a motor at rest

MaxSpeedEdges == 6

\* 10 ms between two edges; just past the longest pulse of the large motor
SteadyGap == 10 * (TimerHz \div 1000)
StallGap == CountsPerPulseTacho + 1
\* the timer is read one period, exactly the longest pulse, or longer after
\* the newest sample
TickGaps == {FreshGap, CountsPerPulseTacho, StallGap}

NextSpeed ==
  \/ \E dir_gpio \in BOOLEAN,
        gap \in IF hist.n = 0 THEN {SteadyGap} ELSE {BounceGap, SteadyGap} :
       Edge(MaxSpeedEdges, TRUE, dir_gpio, gap)
  \/ \E gap \in TickGaps : Tick(gap, 0)

SpecSpeed == InitIsr /\ [][NextSpeed]_vars

\* the step is an edge
EdgeStep == log'.op = "edge" /\ hist'.n = hist.n + 1

\* the edge's timestamp
EdgeTimer == TimerAt(hist'.gap)

\* the measured speed is above the threshold in magnitude
AboveThreshold == Abs(ev3_tm.pulses_per_second) > SpeedThreshold

\* C33: an edge that finds the measured speed above 35 in magnitude takes the
\* high-speed path: run_direction is kept, the edge is not treated as a
\* bounce, the streak goes up by one up to 127, the timestamp is appended and
\* irq_tacho moves by one in the direction resolved last.
C33_FastPathAboveThreshold ==
  [][(EdgeStep /\ AboveThreshold) =>
       /\ ev3_tm'.run_direction = ev3_tm.run_direction
       /\ log'.was = 0
       /\ ev3_tm'.dir_chg_samples = Streak(ev3_tm.dir_chg_samples)
       /\ ev3_tm'.tacho_samples_head = (ev3_tm.tacho_samples_head + 1) % TACHO_SAMPLES
       /\ ev3_tm'.tacho_samples[ev3_tm'.tacho_samples_head] = EdgeTimer
       /\ ev3_tm'.irq_tacho - ev3_tm.irq_tacho
            = IF ev3_tm.run_direction = "FORWARD" THEN 1 ELSE -1]_vars

(**************************** specification: ring **************************)
\* edges and ticks of a motor whose ring of timestamps is about to wrap

PriorEdges == 125

\* the ring is being filled by forward edges 10 ms apart
Filling == hist.n < PriorEdges

NextRing ==
  \/ \E dir_gpio \in IF Filling THEN {FALSE} ELSE BOOLEAN,
        gap \in IF Filling THEN {SteadyGap} ELSE {BounceGap, SteadyGap} :
       Edge(PriorEdges + MaxEdges, TRUE, dir_gpio, gap)
  \/ ~Filling /\ \E gap \in {FreshGap, StallGap} : Tick(gap, 0)

SpecRing == InitIsr /\ [][NextRing]_vars

\* the edge comes within the noise window of the edge before it
InNoiseWindow == hist'.gap < NoiseCounts

\* every slot of the ring but slot i is left as it was
OnlySlotWritten(i) ==
  \A j \in 0..(TACHO_SAMPLES - 1) :
    j # i => ev3_tm'.tacho_samples[j] = ev3_tm.tacho_samples[j]

\* C34: after an edge the head is in 0..127 and the head slot holds the
\* edge's timestamp, no other slot being written; an accepted edge advances
\* the head by one modulo 128, a bounce leaves it where it was; a tick writes
\* neither the ring nor the head.
C34_RingDiscipline ==
  [][/\ EdgeStep =>
          /\ ev3_tm'.tacho_samples_head \in 0..(TACHO_SAMPLES - 1)
          /\ ev3_tm'.tacho_samples[ev3_tm'.tacho_samples_head] = EdgeTimer
          /\ OnlySlotWritten(ev3_tm'.tacho_samples_head)
          /\ ev3_tm'.tacho_samples_head =
               IF InNoiseWindow THEN ev3_tm.tacho_samples_head
               ELSE (ev3_tm.tacho_samples_head + 1) % TACHO_SAMPLES
     /\ TickStep =>
          /\ ev3_tm'.tacho_samples = ev3_tm.tacho_samples
          /\ ev3_tm'.tacho_samples_head = ev3_tm.tacho_samples_head]_vars

\* the head has wrapped to slot 0, and a bounce has overwritten that slot
C34_Witness ==
  /\ log.op = "edge" /\ hist.gap = BounceGap
  /\ ev3_tm.tacho_samples_head = 0
  /\ ev3_tm.tacho_samples[0]
       = ev3_tm.tacho_samples[TACHO_SAMPLES - 1] + SteadyGap + BounceGap

(*************************** the averaging window **************************)
\* checked over the edges and ticks of SpecSpeed

\* the tick computed a speed from the ring
Confirmed ==
  log.op = "tick" /\ log.speed_updated /\ ~ev3_tm.got_new_sample
    /\ ev3_tm.pulses_per_second # 0

\* C35: the streak counter never exceeds the number of ring samples recorded
\* since run_direction last changed value, and a tick that computes a
\* confirmed speed averages over no more intervals than that.
C35_WindowInCurrentDirection ==
  /\ ev3_tm.dir_chg_samples <= hist.since
  /\ Confirmed => ev3_tm.samples_per_speed <= hist.since

(****************************** the estimator ******************************)
\* checked over the edges and ticks of SpecSpeed

\* the tick finds a new sample and a streak as long as the window it selects
Qualifies ==
  ev3_tm.got_new_sample /\ ev3_tm.dir_chg_samples >= ev3_tm'.samples_per_speed

\* C36: a tick computes a confirmed speed exactly if it finds got_new_sample
\* set and a streak of at least the selected window size; it then clears
\* got_new_sample, and the speed is negative exactly if run_direction is
\* REVERSE.
C36_ConfirmedSpeed ==
  [][TickStep =>
       /\ Confirmed' <=> Qualifies
       /\ Confirmed' =>
            /\ ~ev3_tm'.got_new_sample
            /\ ev3_tm'.pulses_per_second < 0 <=> ev3_tm.run_direction = "REVERSE"]_vars

\* a speed of -99 computed over four intervals in REVERSE
C36_Witness ==
  /\ Confirmed /\ ev3_tm.run_direction = "REVERSE"
  /\ ev3_tm.dir_chg_samples >= ev3_tm.samples_per_speed
  /\ ev3_tm.pulses_per_second = -99

C38_RegulatedOnNewSpeed ==
  [][TickStep =>
       /\ log'.speed_updated
            <=> ev3_tm'.pulses_per_second # ev3_tm.pulses_per_second
       /\ log'.reg_speed => log'.speed_updated]_vars

(***************************** the forwarded duty **************************)
\* checked over the moves and resets of SpecReset

\* C39: the duty cycle last forwarded to the driver is |power| and lies in
\* 0..100, after every tick, setter and reset.
C39_DutyCycleIsPower ==
  /\ port.duty_cycle = Abs(ev3_tm.power)
  /\ port.duty_cycle \in 0..MAX_POWER

(************************** specification: divide **************************)
\* timed moves with no ramps, of a positive and of a negative duration, and
\* the gain K written as 0

DivideProfiles ==
  [run_mode : {"time"}, regulation_mode : RegulationModes,
   stop_mode : {"coast"}, duty_cycle_sp : {50},
   pulses_per_second_sp : {450}, time_sp : {-1, 6}, position_sp : {0},
   ramp_up_sp : {0}, ramp_down_sp : {0}]

InitDivide == InitWith({"large"}, DivideProfiles)

NextDivide ==
  \/ \E z \in DivZeroYields : Tick(FreshGap, z)
  \/ Start
  \/ Cancel
  \/ SetSpeedRegulationK(0)

SpecDivide == InitDivide /\ [][NextDivide]_vars

\* C40: no tick divides by zero, neither where the two ramps overlap in
\* SETUP_RAMP_TIME nor in the speed regulator.
C40_NoDivisionByZero == log.op = "tick" => ~log.div0

====
